---------------------------- MODULE Spec2Model ----------------------------
(***************************************************************************)
(* Cat facial-landmark pipeline: the geometric pain-score classifiers      *)
(* (pain_scores.py) and the normalized-mean-error evaluation               *)
(* (inference.py, analyze_results.py).                                     *)
(*                                                                         *)
(* Arithmetic.  NumPy computes in floating point; the model computes the   *)
(* same expressions exactly.  Pixel coordinates are integers.  A length    *)
(* or a ratio of lengths is kept as a signed square root of a rational     *)
(* (a "root"), a normalized coordinate as a rational; nan and inf are      *)
(* explicit values with the comparison rules of IEEE arithmetic.           *)
(***************************************************************************)
EXTENDS Integers, Sequences, FiniteSets, TLC

VARIABLES
    landmarks,      \* the landmark set handed to the classifiers
    eye_score,      \* eyes(landmarks), once computed
    ears_score,     \* ears(landmarks), once computed
    muzzle_score,   \* muzzle(landmarks), once computed
    cps_pc,         \* calculate_pain_score: where the call stands
    weights,        \* calculate_pain_score: the weights of the model
    ret,            \* calculate_pain_score: what predict_landmarks returned
    error_printed,  \* calculate_pain_score: 'ERROR' has been printed
    image,          \* the image of test_data_dir: labels, network output, size
    an_loc,         \* analyze_validation_results: locals of the loop body
    results,        \* analyze_validation_results: results
    nme_values,     \* analyze_validation_results: nme_values
    ev_loc,         \* evaluate_model: locals of the loop body
    total_nme,      \* evaluate_model: total_nme
    program,        \* the evaluation that runs over a directory of images
    image_files,    \* its image_files: the images, in the order of their names
    processed,      \* the number of image_files its loop has gone through
    stats,          \* analyze_validation_results: the statistics of the batch
    avg_nme,        \* evaluate_model: the value returned
    item,           \* CatLandmarkDataset.__getitem__: the target returned
    vs_loc,         \* validate_on_val_set.py: locals of the loop body
    tv_loc,         \* train.validate: the NME of the sample
    heap,           \* the NumPy arrays, in the order of their creation
    binding,        \* the array that each name of the evaluation denotes
    directory,      \* the names of the files of the images directory
    split,          \* train.main: the datasets and the indices of the split
    vs_split,       \* validate_on_val_set.py: its split and its test_files
    epoch,          \* train.main: the number of epochs gone through
    best_val_loss,  \* train.main: best_val_loss
    saved,          \* train.main: the checkpoints in save_dir, by file name
    val_curve,      \* the val_loss that validate returns, epoch by epoch
    args,           \* convert_to_coreml.main: args
    converted       \* convert_to_coreml.main: the call of convert_to_coreml

classifier_vars == <<landmarks, eye_score, ears_score, muzzle_score>>

cps_vars == <<cps_pc, weights, ret, error_printed>>

nme_vars == <<image, an_loc, results, nme_values, ev_loc, total_nme>>

batch_vars == <<program, image_files, processed, stats, avg_nme>>

val_vars == <<vs_loc, tv_loc>>

copy_vars == <<heap, binding>>

dir_vars == <<directory>>

split_vars == <<split, vs_split>>

train_vars == <<epoch, best_val_loss, saved, val_curve>>

export_vars == <<args, converted>>

main_vars == <<split_vars, train_vars, export_vars>>

run_vars == <<val_vars, copy_vars, dir_vars, main_vars>>

vars == <<landmarks, eye_score, ears_score, muzzle_score,
          cps_pc, weights, ret, error_printed,
          image, an_loc, results, nme_values, ev_loc, total_nme,
          program, image_files, processed, stats, avg_nme, item,
          vs_loc, tv_loc, heap, binding, directory,
          split, vs_split, epoch, best_val_loss, saved, val_curve,
          args, converted>>

-----------------------------------------------------------------------------
(* Integer helpers *)

Abs(a) == IF a < 0 THEN -a ELSE a

Sgn(a) == IF a < 0 THEN -1 ELSE IF a = 0 THEN 0 ELSE 1

RECURSIVE GCD(_, _)
GCD(a, b) == IF b = 0 THEN a ELSE GCD(b, a % b)

-----------------------------------------------------------------------------
(* Rationals: [n, d] stands for n / d, in lowest terms with d > 0.  A      *)
(* value that is none of these (an irrational root, a quotient by zero)    *)
(* is NotRational, and so is everything computed from it.                  *)

NotRational == [n |-> 0, d |-> 0]

Rat(n, d) ==
    IF d = 0 THEN NotRational
    ELSE LET g == GCD(Abs(n), d) IN [n |-> n \div g, d |-> d \div g]

RatMul(a, b) == Rat(a.n * b.n, a.d * b.d)

RatAdd(a, b) == Rat(a.n * b.d + b.n * a.d, a.d * b.d)

RatSub(a, b) == Rat(a.n * b.d - b.n * a.d, a.d * b.d)

(* a / b *)
RatDiv(a, b) == Rat(Sgn(b.n) * a.n * b.d, a.d * Abs(b.n))

RatLt(a, b) == a.n * b.d < b.n * a.d

RatLe(a, b) == a.n * b.d <= b.n * a.d

(* Python's builtin max(a, b) *)
PyMaxQ(a, b) == IF RatLt(a, b) THEN b ELSE a

(* the integer square root, by bisection on lo <= sqrt(n) < hi *)
RECURSIVE Bisect(_, _, _)
Bisect(n, lo, hi) ==
    IF hi - lo <= 1 THEN lo
    ELSE LET mid == (lo + hi) \div 2
         IN  IF mid * mid <= n THEN Bisect(n, mid, hi) ELSE Bisect(n, lo, mid)

ISqrt(n) == Bisect(n, 0, IF n < 46340 THEN n + 1 ELSE 46341)

IsSquare(n) == ISqrt(n) * ISqrt(n) = n

(* a rational that is the square of a rational *)
IsSquareRat(a) == a.n >= 0 /\ IsSquare(a.n) /\ IsSquare(a.d)

(* the square root of such a rational, and of no other *)
RatSqrt(a) == IF IsSquareRat(a) THEN Rat(ISqrt(a.n), ISqrt(a.d)) ELSE NotRational

-----------------------------------------------------------------------------
(* Roots: [s, n, d] stands for s * sqrt(n / d), with s in {-1, 0, 1},      *)
(* n >= 0, d > 0; the float values nan and +inf are sqrt(0 / 0) and        *)
(* sqrt(1 / 0).                                                            *)

NaN == [s |-> 0, n |-> 0, d |-> 0]

Inf == [s |-> 1, n |-> 1, d |-> 0]

Root(s, n, d) ==
    IF n = 0 \/ s = 0 THEN [s |-> 0, n |-> 0, d |-> 1]
    ELSE LET g == GCD(n, d) IN [s |-> s, n |-> n \div g, d |-> d \div g]

(* the literal a / b of the source, e.g. 0.7 = Dec(7, 10) *)
Dec(a, b) == Root(Sgn(a), a * a, b * b)

IsFinite(a) == a # NaN /\ a # Inf

(* a < b on floats: false as soon as one side is nan *)
RLt(a, b) ==
    IF a = NaN \/ b = NaN THEN FALSE
    ELSE IF a = Inf THEN FALSE
    ELSE IF b = Inf THEN TRUE
    ELSE IF a.s # b.s THEN a.s < b.s
    ELSE IF a.s = 0 THEN FALSE
    ELSE IF a.s = 1 THEN a.n * b.d < b.n * a.d
    ELSE a.n * b.d > b.n * a.d

RGt(a, b) == RLt(b, a)

REq(a, b) ==
    IF a = NaN \/ b = NaN THEN FALSE
    ELSE a = b

RLe(a, b) == RLt(a, b) \/ REq(a, b)

RGe(a, b) == RLe(b, a)

(* a * b *)
RMul(a, b) ==
    IF a = NaN \/ b = NaN THEN NaN
    ELSE IF a = Inf \/ b = Inf
         THEN (IF (a # Inf /\ a.s = 0) \/ (b # Inf /\ b.s = 0) THEN NaN ELSE Inf)
    ELSE Root(a.s * b.s, a.n * b.n, a.d * b.d)

(* a / b of two floats, a >= 0 or b finite non-zero: x / 0 is inf, 0 / 0 is nan *)
RDiv(a, b) ==
    IF a = NaN \/ b = NaN THEN NaN
    ELSE IF b = Inf THEN (IF a = Inf THEN NaN ELSE Root(0, 0, 1))
    ELSE IF a = Inf THEN Inf
    ELSE IF b.s = 0 THEN (IF a.s = 0 THEN NaN ELSE Inf)
    ELSE Root(a.s * b.s, a.n * b.d, a.d * b.n)

(* Python's builtin min(a, b) / max(a, b): the first argument wins unless  *)
(* the second compares strictly smaller / larger                           *)
PyMin(a, b) == IF RLt(b, a) THEN b ELSE a

PyMax(a, b) == IF RGt(b, a) THEN b ELSE a

-----------------------------------------------------------------------------
(* Vectors in pixel space: <<x, y>> with integer components *)

Sub(p, q) == <<p[1] - q[1], p[2] - q[2]>>

Add(p, q) == <<p[1] + q[1], p[2] + q[2]>>

(* np.dot *)
Dot(p, q) == p[1] * q[1] + p[2] * q[2]

(* np.linalg.norm of an integer vector *)
Norm(p) == Root(1, p[1] * p[1] + p[2] * p[2], 1)

(* an integer as a float *)
Int2R(k) == Root(Sgn(k), k * k, 1)

-----------------------------------------------------------------------------
(* Angles: np.degrees(np.arccos(c)) is kept as its cosine c, a root in     *)
(* [-1, 1]; arccos is strictly decreasing, so angles compare as their      *)
(* cosines in reverse.  arccos(nan) is nan.                                *)

Angle(c) == IF c = Inf THEN [cos |-> NaN] ELSE [cos |-> c]

ACos(a) == a.cos

IsNaNAngle(a) == a.cos = NaN

ALt(a, b) == RGt(ACos(a), ACos(b))

AGt(a, b) == ALt(b, a)

ALe(a, b) == RGe(ACos(a), ACos(b))

AGe(a, b) == ALe(b, a)

PyMinA(a, b) == IF ALt(b, a) THEN b ELSE a

PyMaxA(a, b) == IF AGt(b, a) THEN b ELSE a

(* The degree literals of ears().  cos^2 of each is irrational, so no      *)
(* lattice angle equals a threshold; the six-digit value separates the     *)
(* cosines of all integer vectors of squared length product < 10^5 the     *)
(* same way the exact value does.                                          *)
Deg70 == Angle(Root(1, 116978, 1000000))

Deg75 == Angle(Root(1, 66987, 1000000))

Deg115 == Angle(Root(-1, 178606, 1000000))

Deg125 == Angle(Root(-1, 328990, 1000000))

Deg145 == Angle(Root(-1, 671010, 1000000))

(* np.degrees(np.arccos(np.dot(a, b) / (norm(a) * norm(b)))) *)
AngleBetween(a, b) == Angle(RDiv(Int2R(Dot(a, b)), RMul(Norm(a), Norm(b))))

-----------------------------------------------------------------------------
(* pain_scores.py: the three classifiers *)

(* the ladder with 0.7 belonging to the score 0 *)
EyesLadder_Inclusive(l_ratio, r_ratio) ==
    IF RGt(PyMin(l_ratio, r_ratio), Dec(1, 1)) THEN -1
    ELSE IF RGe(PyMin(l_ratio, r_ratio), Dec(7, 10)) THEN 0
    ELSE IF RGe(PyMin(l_ratio, r_ratio), Dec(5, 10)) THEN 1
    ELSE 2

EyesLadder_FromOne(l_ratio, r_ratio) ==
    IF RGt(PyMin(l_ratio, r_ratio), Dec(1, 1)) THEN 0
    ELSE IF RGt(PyMin(l_ratio, r_ratio), Dec(7, 10)) THEN 1
    ELSE IF RGe(PyMin(l_ratio, r_ratio), Dec(5, 10)) THEN 2
    ELSE 3

EyesLadder(l_ratio, r_ratio) ==
    IF RGt(PyMin(l_ratio, r_ratio), Dec(1, 1)) THEN -1
    ELSE IF RGt(PyMin(l_ratio, r_ratio), Dec(7, 10)) THEN 0
    ELSE IF RGe(PyMin(l_ratio, r_ratio), Dec(5, 10)) THEN 1
    ELSE 2

(* a variant that measures the left eye from the origin: landmarks[9] for  *)
(* landmarks[9] - landmarks[8]                                             *)
eyes_FromOrigin(lm) ==
    LET left_eye_horizontal_distance == Norm(lm[9])
        left_eye_vertical_distance == Norm(Sub(lm[10], lm[11]))
        right_eye_horizontal_distance == Norm(Sub(lm[5], lm[4]))
        right_eye_vertical_distance == Norm(Sub(lm[7], lm[6]))
        r_ratio == RDiv(right_eye_vertical_distance, right_eye_horizontal_distance)
        l_ratio == RDiv(left_eye_vertical_distance, left_eye_horizontal_distance)
    IN  EyesLadder(l_ratio, r_ratio)

(* a variant with a slip in one index: landmarks[12] for landmarks[11] *)
eyes_WrongIndex(lm) ==
    LET left_eye_horizontal_distance == Norm(Sub(lm[9], lm[8]))
        left_eye_vertical_distance == Norm(Sub(lm[10], lm[12]))
        right_eye_horizontal_distance == Norm(Sub(lm[5], lm[4]))
        right_eye_vertical_distance == Norm(Sub(lm[7], lm[6]))
        r_ratio == RDiv(right_eye_vertical_distance, right_eye_horizontal_distance)
        l_ratio == RDiv(left_eye_vertical_distance, left_eye_horizontal_distance)
    IN  EyesLadder(l_ratio, r_ratio)

eyes(lm) ==
    LET left_eye_horizontal_distance == Norm(Sub(lm[9], lm[8]))
        left_eye_vertical_distance == Norm(Sub(lm[10], lm[11]))
        right_eye_horizontal_distance == Norm(Sub(lm[5], lm[4]))
        right_eye_vertical_distance == Norm(Sub(lm[7], lm[6]))
        r_ratio == RDiv(right_eye_vertical_distance, right_eye_horizontal_distance)
        l_ratio == RDiv(left_eye_vertical_distance, left_eye_horizontal_distance)
    IN  EyesLadder(l_ratio, r_ratio)

(* lines 44-50, on the four angles *)
EarsLadder_Reordered(l_ear_angle, r_ear_angle, l_vert_angle, r_vert_angle) ==
    LET min_ear_ang == PyMinA(l_ear_angle, r_ear_angle)
        max_vert_angle == PyMaxA(l_vert_angle, r_vert_angle)
    IN  IF ALt(PyMaxA(l_ear_angle, r_ear_angle), Deg115) THEN -1
        ELSE IF (ALe(Deg115, min_ear_ang) /\ ALe(min_ear_ang, Deg125))
                \/ AGt(max_vert_angle, Deg75) THEN 0
        ELSE IF AGt(min_ear_ang, Deg145) \/ ALt(max_vert_angle, Deg70) THEN 2
        ELSE 1

EarsLadder(l_ear_angle, r_ear_angle, l_vert_angle, r_vert_angle) ==
    LET min_ear_ang == PyMinA(l_ear_angle, r_ear_angle)
        max_vert_angle == PyMaxA(l_vert_angle, r_vert_angle)
    IN  IF ALt(PyMaxA(l_ear_angle, r_ear_angle), Deg115) THEN -1
        ELSE IF AGt(min_ear_ang, Deg145) \/ ALt(max_vert_angle, Deg70) THEN 2
        ELSE IF (ALe(Deg115, min_ear_ang) /\ ALe(min_ear_ang, Deg125))
                \/ AGt(max_vert_angle, Deg75) THEN 0
        ELSE 1

ears(lm) ==
    LET r_ear_a == Sub(lm[25], lm[26])
        r_ear_b == Sub(lm[27], lm[26])
        r_ear_angle == AngleBetween(r_ear_a, r_ear_b)
        l_ear_a == Sub(lm[28], lm[27])
        l_ear_b == Sub(lm[26], lm[27])
        l_ear_angle == AngleBetween(l_ear_a, l_ear_b)
        ear_base_line == Sub(lm[31], lm[22])
        l_ear_vertical == Sub(lm[31], lm[30])
        r_ear_vertical == Sub(lm[22], lm[23])
        l_vert_angle == AngleBetween(ear_base_line, l_ear_vertical)
        r_vert_angle == AngleBetween(ear_base_line, r_ear_vertical)
    IN  EarsLadder(l_ear_angle, r_ear_angle, l_vert_angle, r_vert_angle)

(* lines 60-63, on l_muzzle_ratio and r_muzzle_ratio *)
MuzzleLadder_SentinelFirst(l_muzzle_ratio, r_muzzle_ratio) ==
    IF RGt(PyMax(l_muzzle_ratio, r_muzzle_ratio), Dec(2, 1)) THEN 2
    ELSE IF RLe(PyMax(l_muzzle_ratio, r_muzzle_ratio), Dec(8, 10)) THEN -1
    ELSE IF RGt(PyMax(l_muzzle_ratio, r_muzzle_ratio), Dec(15, 10)) THEN 1
    ELSE 0

MuzzleLadder(l_muzzle_ratio, r_muzzle_ratio) ==
    IF RGt(PyMax(l_muzzle_ratio, r_muzzle_ratio), Dec(2, 1)) THEN 2
    ELSE IF RGt(PyMax(l_muzzle_ratio, r_muzzle_ratio), Dec(15, 10)) THEN 1
    ELSE IF RLt(PyMax(l_muzzle_ratio, r_muzzle_ratio), Dec(8, 10)) THEN -1
    ELSE 0

muzzle(lm) ==
    LET l_muzzle_width == Norm(Sub(lm[44], lm[32]))
        r_muzzle_width == Norm(Sub(lm[45], lm[35]))
        l_muzzle_height == Norm(Sub(lm[42], lm[21]))
        r_muzzle_height == Norm(Sub(lm[43], lm[19]))
        l_muzzle_ratio == RDiv(l_muzzle_width, l_muzzle_height)
        r_muzzle_ratio == RDiv(r_muzzle_width, r_muzzle_height)
    IN  MuzzleLadder(l_muzzle_ratio, r_muzzle_ratio)

-----------------------------------------------------------------------------
(* Landmark sets.  A landmark set has 48 points (reshape(48, 2)).  The     *)
(* predictor is opaque, so the sets the classifiers are applied to are     *)
(* enumerated: a neutral face, with the free end of every segment of one   *)
(* anatomical feature moved over a grid.                                   *)

NumLandmarks == 48

Idx == 0 .. (NumLandmarks - 1)

(* bounds of the grids *)
EyeMaxX == 0

EyeMaxY == 7

MuzzleMaxX == 9

MuzzleMaxY == 0

EarMaxX == 2

EarMaxY == 2

VertMaxX == 1

VertMaxY == 3

Neutral ==
    [i \in Idx |->
        CASE i = 4 -> <<10, 20>> [] i = 5 -> <<20, 20>>
          [] i = 6 -> <<15, 16>> [] i = 7 -> <<15, 24>>
          [] i = 8 -> <<30, 20>> [] i = 9 -> <<40, 20>>
          [] i = 11 -> <<35, 16>> [] i = 10 -> <<35, 24>>
          [] i = 25 -> <<19, 2>> [] i = 26 -> <<20, 0>>
          [] i = 27 -> <<22, 0>> [] i = 28 -> <<23, 2>>
          [] i = 22 -> <<10, 5>> [] i = 23 -> <<10, 4>>
          [] i = 31 -> <<14, 5>> [] i = 30 -> <<14, 4>>
          [] i = 32 -> <<20, 30>> [] i = 44 -> <<25, 30>>
          [] i = 21 -> <<20, 28>> [] i = 42 -> <<20, 33>>
          [] i = 35 -> <<30, 30>> [] i = 45 -> <<35, 30>>
          [] i = 19 -> <<30, 28>> [] i = 43 -> <<30, 33>>
          [] OTHER -> <<i, 40>>]

(* horizontal eyelid segments and muzzle heights: a few fixed vectors,     *)
(* the null vector among them                                              *)
EyeWidths == {<<0, 0>>, <<5, 0>>, <<10, 0>>, <<3, 4>>}

EyeOpenings == (0 .. EyeMaxX) \X (0 .. EyeMaxY)

MuzzleHeights == {<<0, 0>>, <<0, 4>>, <<0, 5>>, <<3, 4>>}

MuzzleWidths == (0 .. MuzzleMaxX) \X (0 .. MuzzleMaxY)

EarGrid == (0 .. EarMaxX) \X (0 .. EarMaxY)

VertGrid == (0 .. VertMaxX) \X (0 .. VertMaxY)

Mirror(p) == <<-p[1], p[2]>>

EyeFace(lh, lv, rh, rv) ==
    [Neutral EXCEPT ![9] = Add(Neutral[8], lh), ![10] = Add(Neutral[11], lv),
                    ![5] = Add(Neutral[4], rh), ![7] = Add(Neutral[6], rv)]

EarFace(ra, la, rv, lv) ==
    [Neutral EXCEPT ![25] = Add(Neutral[26], Mirror(ra)), ![28] = Add(Neutral[27], la),
                    ![23] = Sub(Neutral[22], rv), ![30] = Sub(Neutral[31], lv)]

MuzzleFace(lw, lh, rw, rh) ==
    [Neutral EXCEPT ![44] = Add(Neutral[32], lw), ![42] = Add(Neutral[21], lh),
                    ![45] = Add(Neutral[35], rw), ![43] = Add(Neutral[19], rh)]

(* the enumerated landmark sets, by feature and free vectors *)
FaceParams ==
    (({"eyes"} \X EyeWidths \X EyeOpenings \X EyeWidths \X EyeOpenings)
     \cup ({"ears"} \X EarGrid \X EarGrid \X VertGrid \X VertGrid))
     \cup ({"muzzle"} \X MuzzleWidths \X MuzzleHeights \X MuzzleWidths \X MuzzleHeights)

Face(t) ==
    CASE t[1] = "eyes" -> EyeFace(t[2], t[3], t[4], t[5])
      [] t[1] = "ears" -> EarFace(t[2], t[3], t[4], t[5])
      [] t[1] = "muzzle" -> MuzzleFace(t[2], t[3], t[4], t[5])

-----------------------------------------------------------------------------
(* inference.py: predict_landmarks.  The network is opaque: its output is  *)
(* any of the enumerated landmark sets, in normalized coordinates of the   *)
(* image.                                                                  *)

ImageSizes == {<<50, 50>>, <<64, 48>>}

(* model.py lines 49-59: the regression head ends in nn.Sigmoid().  The    *)
(* output z of the last Linear layer is named by its exponential e >= 0,   *)
(* PlusInfinity where float32 saturates, which makes 1 / (1 + exp(-z))     *)
(* the quotient e / (1 + e).                                               *)
PlusInfinity == [n |-> 1, d |-> 0]

(* a variant with nn.Tanh() as the last layer: (e^2 - 1) / (e^2 + 1) *)
Sigmoid_Tanh(e) ==
    IF e = PlusInfinity THEN Rat(1, 1)
    ELSE Rat(e.n * e.n - e.d * e.d, e.n * e.n + e.d * e.d)

Sigmoid(e) == IF e = PlusInfinity THEN Rat(1, 1) ELSE Rat(e.n, e.n + e.d)

(* the output of the last Linear layer that the Sigmoid maps to r, for     *)
(* 0 <= r <= 1                                                             *)
PreActivation(r) == IF r.n = r.d THEN PlusInfinity ELSE Rat(r.n, r.d - r.n)

(* model.py lines 61-71, forward: the network output whose                 *)
(* denormalization is lm                                                   *)
ModelOutput(lm, original_size) ==
    [i \in Idx |-> <<Sigmoid(PreActivation(Rat(lm[i][1], original_size[1]))),
                     Sigmoid(PreActivation(Rat(lm[i][2], original_size[2])))>>]

(* a normalized coordinate times a pixel size; the enumerated outputs      *)
(* make the product an integer                                             *)
Scale(r, size) == (r.n * size) \div r.d

(* lines 73-86: returns the pair (landmarks, landmarks_normalized) *)
predict_landmarks(landmarks_normalized, original_size) ==
    LET lms == [i \in Idx |-> <<Scale(landmarks_normalized[i][1], original_size[1]),
                                 Scale(landmarks_normalized[i][2], original_size[2])>>]
    IN  <<lms, landmarks_normalized>>

-----------------------------------------------------------------------------
(* The classifiers applied to a landmark set.  A value that has not been   *)
(* computed is the empty sequence, a computed score s is <<s>>.            *)

None == <<>>

(* no evaluation runs over a directory *)
NoBatch ==
    /\ program = "none"
    /\ image_files = <<>>
    /\ processed = 0
    /\ stats = <<>>
    /\ avg_nme = <<>>
    /\ item = <<>>

(* train.main, validate_on_val_set.py and convert_to_coreml.main have not *)
(* run                                                                     *)
NoMain ==
    /\ split = None
    /\ vs_split = None
    /\ epoch = 0
    /\ best_val_loss = None
    /\ saved = <<>>
    /\ val_curve = <<>>
    /\ args = None
    /\ converted = None

(* the other programs have not run *)
NoRun ==
    /\ vs_loc = None
    /\ tv_loc = None
    /\ heap = <<>>
    /\ binding = <<>>
    /\ directory = {}
    /\ NoMain

(* no image is being evaluated *)
NoEvaluation ==
    /\ image = None
    /\ an_loc = None
    /\ results = <<>>
    /\ nme_values = <<>>
    /\ ev_loc = None
    /\ total_nme = Rat(0, 1)

Init ==
    /\ \E t \in FaceParams : landmarks = Face(t)
    /\ eye_score = None
    /\ ears_score = None
    /\ muzzle_score = None
    /\ cps_pc = "not called"
    /\ weights = "none"
    /\ ret = None
    /\ error_printed = FALSE
    /\ NoEvaluation
    /\ NoBatch
    /\ NoRun

CallEyes ==
    /\ eye_score = None
    /\ eye_score' = <<eyes(landmarks)>>
    /\ UNCHANGED <<landmarks, ears_score, muzzle_score, cps_vars, nme_vars, batch_vars, item, run_vars>>

CallEars ==
    /\ ears_score = None
    /\ ears_score' = <<ears(landmarks)>>
    /\ UNCHANGED <<landmarks, eye_score, muzzle_score, cps_vars, nme_vars, batch_vars, item, run_vars>>

CallMuzzle ==
    /\ muzzle_score = None
    /\ muzzle_score' = <<muzzle(landmarks)>>
    /\ UNCHANGED <<landmarks, eye_score, ears_score, cps_vars, nme_vars, batch_vars, item, run_vars>>

Next == CallEyes \/ CallEars \/ CallMuzzle

Spec == Init /\ [][Next]_vars

-----------------------------------------------------------------------------
(* pain_scores.py: repeated calls of eyes, ears and muzzle on one landmark *)
(* set, in any order.  Here a score variable holds the values returned by *)
(* the successive calls of its classifier, oldest first.                   *)

MaxCalls == 2

(* the landmark sets whose two sides are displaced alike *)
SymmetricFaces == {t \in FaceParams : t[2] = t[4] /\ t[3] = t[5]}

InitCalls ==
    /\ \E t \in SymmetricFaces : landmarks = Face(t)
    /\ eye_score = None
    /\ ears_score = None
    /\ muzzle_score = None
    /\ cps_pc = "not called"
    /\ weights = "none"
    /\ ret = None
    /\ error_printed = FALSE
    /\ NoEvaluation
    /\ NoBatch
    /\ NoRun

(* a variant that subtracts in place: landmarks[9] -= landmarks[8] *)
RecallEyes_InPlace ==
    /\ eye_score # None
    /\ Len(eye_score) < MaxCalls
    /\ landmarks' = [landmarks EXCEPT ![9] = Sub(landmarks[9], landmarks[8])]
    /\ eye_score' = Append(eye_score, eyes(landmarks))
    /\ UNCHANGED <<ears_score, muzzle_score, cps_vars, nme_vars, batch_vars, item, run_vars>>

RecallEyes ==
    /\ eye_score # None
    /\ Len(eye_score) < MaxCalls
    /\ eye_score' = Append(eye_score, eyes(landmarks))
    /\ UNCHANGED <<landmarks, ears_score, muzzle_score, cps_vars, nme_vars, batch_vars, item, run_vars>>

RecallEars ==
    /\ ears_score # None
    /\ Len(ears_score) < MaxCalls
    /\ ears_score' = Append(ears_score, ears(landmarks))
    /\ UNCHANGED <<landmarks, eye_score, muzzle_score, cps_vars, nme_vars, batch_vars, item, run_vars>>

RecallMuzzle ==
    /\ muzzle_score # None
    /\ Len(muzzle_score) < MaxCalls
    /\ muzzle_score' = Append(muzzle_score, muzzle(landmarks))
    /\ UNCHANGED <<landmarks, eye_score, ears_score, cps_vars, nme_vars, batch_vars, item, run_vars>>

NextCalls ==
    \/ CallEyes
    \/ CallEars
    \/ CallMuzzle
    \/ RecallEyes
    \/ RecallEars
    \/ RecallMuzzle

SpecCalls == InitCalls /\ [][NextCalls]_vars

-----------------------------------------------------------------------------
(* pain_scores.py: the classifiers on a landmark set and on the sets that  *)
(* differ from it in one landmark.                                         *)

MaxCoord == 6

(* a landmark set within MaxCoord pixels of the origin: both eyes 4 wide    *)
(* and 3 open, ear angles of 135 degrees, vertical angles of 71.6 degrees,  *)
(* a muzzle 3 wide and 2 high on both sides                                 *)
CompactFace ==
    [i \in Idx |->
        CASE i = 4 -> <<0, 2>> [] i = 5 -> <<4, 2>>
          [] i = 6 -> <<2, 1>> [] i = 7 -> <<2, 4>>
          [] i = 8 -> <<1, 3>> [] i = 9 -> <<5, 3>>
          [] i = 11 -> <<3, 2>> [] i = 10 -> <<3, 5>>
          [] i = 25 -> <<1, 1>> [] i = 26 -> <<2, 0>>
          [] i = 27 -> <<4, 0>> [] i = 28 -> <<5, 1>>
          [] i = 22 -> <<1, 3>> [] i = 23 -> <<0, 0>>
          [] i = 31 -> <<4, 3>> [] i = 30 -> <<3, 0>>
          [] i = 32 -> <<0, 5>> [] i = 44 -> <<3, 5>>
          [] i = 21 -> <<0, 4>> [] i = 42 -> <<0, 6>>
          [] i = 35 -> <<3, 5>> [] i = 45 -> <<6, 5>>
          [] i = 19 -> <<3, 4>> [] i = 43 -> <<3, 6>>
          [] OTHER -> <<i % 7, i \div 7>>]

InitFrame ==
    /\ landmarks = CompactFace
    /\ eye_score = None
    /\ ears_score = None
    /\ muzzle_score = None
    /\ cps_pc = "not called"
    /\ weights = "none"
    /\ ret = None
    /\ error_printed = FALSE
    /\ NoEvaluation
    /\ NoBatch
    /\ NoRun

(* the three classifiers called on the set with landmark i at p *)
ScoreMoved ==
    /\ eye_score # None
    /\ ears_score # None
    /\ muzzle_score # None
    /\ landmarks = CompactFace
    /\ \E i \in Idx, p \in (0 .. MaxCoord) \X (0 .. MaxCoord) :
          \E lm \in {[landmarks EXCEPT ![i] = p]} :
              /\ landmarks' = lm
              /\ eye_score' = <<eyes(lm)>>
              /\ ears_score' = <<ears(lm)>>
              /\ muzzle_score' = <<muzzle(lm)>>
    /\ UNCHANGED <<cps_vars, nme_vars, batch_vars, item, run_vars>>

NextFrame == CallEyes \/ CallEars \/ CallMuzzle \/ ScoreMoved

SpecFrame == InitFrame /\ [][NextFrame]_vars

-----------------------------------------------------------------------------
(* pain_scores.py: calculate_pain_score(image_path, model_path) *)

InitPain ==
    /\ landmarks = None
    /\ eye_score = None
    /\ ears_score = None
    /\ muzzle_score = None
    /\ cps_pc = "start"
    /\ weights = "none"
    /\ ret = None
    /\ error_printed = FALSE
    /\ NoEvaluation
    /\ NoBatch
    /\ NoRun

(* lines 79-93: the checkpoint is loaded if the file exists, and the       *)
(* freshly constructed model is used as it is otherwise                    *)
LoadModel ==
    /\ cps_pc = "start"
    /\ \E exists \in BOOLEAN :
          weights' = IF exists THEN "checkpoint" ELSE "untrained"
    /\ cps_pc' = "model ready"
    /\ UNCHANGED <<classifier_vars, ret, error_printed, nme_vars, batch_vars, item, run_vars>>

(* lines 96-113: the result of predict_landmarks is unpacked into three    *)
(* names (landmarks, landmarks_norm, plt); unpacking a tuple of another    *)
(* length raises ValueError and nothing below line 98 runs                 *)
PredictAndScore ==
    /\ cps_pc = "model ready"
    /\ \E t \in FaceParams, original_size \in ImageSizes :
          \E lm \in {Face(t)} :
          \E predictions \in {ModelOutput(lm, original_size)} :
          \E out \in {predict_landmarks(predictions, original_size)} :
              /\ ret' = out
              /\ IF Len(out) = 3
                 THEN /\ landmarks' = out[1]
                      /\ eye_score' = <<eyes(out[1])>>
                      /\ ears_score' = <<ears(out[1])>>
                      /\ muzzle_score' = <<muzzle(out[1])>>
                      /\ error_printed' = (eyes(out[1]) = -1 \/ ears(out[1]) = -1
                                              \/ muzzle(out[1]) = -1)
                      /\ cps_pc' = "done"
                 ELSE /\ cps_pc' = "ValueError"
                      /\ UNCHANGED <<classifier_vars, error_printed>>
    /\ UNCHANGED <<weights, nme_vars, batch_vars, item, run_vars>>

NextPain == LoadModel \/ PredictAndScore

SpecPain == InitPain /\ [][NextPain]_vars

-----------------------------------------------------------------------------
(* inference.py: main with --image, lines 163-181 *)

(* a landmark set with points in two corners of the image *)
CornerFace(size) == [Neutral EXCEPT ![0] = <<0, 0>>, ![47] = size]

PredictedFaces == SymmetricFaces \cup {<<"corner">>}

InitPredict ==
    /\ landmarks = None
    /\ eye_score = None
    /\ ears_score = None
    /\ muzzle_score = None
    /\ cps_pc = "not called"
    /\ weights = "none"
    /\ ret = None
    /\ error_printed = FALSE
    /\ NoEvaluation
    /\ program = "inference"
    /\ image_files = <<>>
    /\ processed = 0
    /\ stats = None
    /\ avg_nme = None
    /\ item = None
    /\ NoRun

(* lines 163-176: the checkpoint is loaded if the file exists *)
MainLoadModel ==
    /\ program = "inference"
    /\ weights = "none"
    /\ \E exists \in BOOLEAN :
          weights' = IF exists THEN "checkpoint" ELSE "untrained"
    /\ UNCHANGED <<classifier_vars, cps_pc, ret, error_printed, nme_vars, batch_vars, item, run_vars>>

(* lines 179-181: landmarks, landmarks_norm = predict_landmarks(...) *)
MainPredict ==
    /\ program = "inference"
    /\ weights # "none"
    /\ ret = None
    /\ \E t \in PredictedFaces, original_size \in ImageSizes :
          \E lm \in {IF t[1] = "corner" THEN CornerFace(original_size) ELSE Face(t)} :
          \E predictions \in {ModelOutput(lm, original_size)} :
          \E out \in {predict_landmarks(predictions, original_size)} :
              /\ ret' = out
              /\ landmarks' = out[1]
    /\ UNCHANGED <<eye_score, ears_score, muzzle_score, cps_pc, weights, error_printed,
                   nme_vars, batch_vars, item, run_vars>>

NextPredict == MainLoadModel \/ MainPredict

SpecPredict == InitPredict /\ [][NextPredict]_vars

-----------------------------------------------------------------------------
(* The NME evaluation of one image: the loop bodies of                     *)
(* analyze_validation_results (analyze_results.py) and of evaluate_model   *)
(* (inference.py).                                                         *)
(*                                                                         *)
(* A normalized coordinate is a rational.  The images enumerated are       *)
(* those on which every distance the evaluation takes is rational, so      *)
(* that norms, their mean and the quotients are computed exactly.          *)

(* 1e-5 *)
Eps == Rat(1, 100000)

(* the pixel coordinates kept as they are *)
Normalize_Pixels(lms, img_width, img_height) ==
    [i \in DOMAIN lms |-> <<Rat(lms[i][1], 1), Rat(lms[i][2], 1)>>]

(* x / img_width, y / img_height for every point (lines 57-59, 62-64) *)
Normalize(lms, img_width, img_height) ==
    [i \in DOMAIN lms |-> <<Rat(lms[i][1], img_width), Rat(lms[i][2], img_height)>>]

(* np.linalg.norm of a vector of rationals *)
NormQ(v) == RatSqrt(RatAdd(RatMul(v[1], v[1]), RatMul(v[2], v[2])))

SubQ(p, q) == <<RatSub(p[1], q[1]), RatSub(p[2], q[2])>>

(* xs[lo] + ... + xs[hi], summed by halves *)
RECURSIVE SumOver(_, _, _)
SumOver(xs, lo, hi) ==
    IF hi < lo THEN Rat(0, 1)
    ELSE IF lo = hi THEN xs[lo]
    ELSE LET mid == (lo + hi) \div 2
         IN  RatAdd(SumOver(xs, lo, mid), SumOver(xs, mid + 1, hi))

(* the sum divided by one less than the number of entries *)
Mean_Biased(xs) ==
    RatDiv(SumOver(xs, 0, Cardinality(DOMAIN xs) - 1), Rat(Cardinality(DOMAIN xs) - 1, 1))

(* np.mean of a vector indexed from 0 *)
Mean(xs) == RatDiv(SumOver(xs, 0, Cardinality(DOMAIN xs) - 1), Rat(Cardinality(DOMAIN xs), 1))

(* np.max, np.min *)
MaxOf(xs) == CHOOSE x \in {xs[i] : i \in DOMAIN xs} : \A i \in DOMAIN xs : RatLe(xs[i], x)

MinOf(xs) == CHOOSE x \in {xs[i] : i \in DOMAIN xs} : \A i \in DOMAIN xs : RatLe(x, xs[i])

LCM(a, b) == (a \div GCD(a, b)) * b

(* the least common multiple and the sum of ds[lo], ..., ds[hi], by halves *)
RECURSIVE LcmOver(_, _, _)
LcmOver(ds, lo, hi) ==
    IF lo = hi THEN ds[lo]
    ELSE LET mid == (lo + hi) \div 2
         IN  LCM(LcmOver(ds, lo, mid), LcmOver(ds, mid + 1, hi))

RECURSIVE IntSumOver(_, _, _)
IntSumOver(ms, lo, hi) ==
    IF lo = hi THEN ms[lo]
    ELSE LET mid == (lo + hi) \div 2
         IN  IntSumOver(ms, lo, mid) + IntSumOver(ms, mid + 1, hi)

(* np.std of a vector of N non-negative entries indexed from 0:            *)
(* sqrt(mean(|x - mean(x)|^2)).  With c the largest entry, x[i] / c =      *)
(* m[i] / L for integers m[i] and L, and the deviation of x[i] / c from    *)
(* the mean is (N * m[i] - sum(m)) / (N * L).                              *)
Std(xs) ==
    LET N == Cardinality(DOMAIN xs)
        c == MaxOf(xs)
    IN  IF \E i \in DOMAIN xs : xs[i] = NotRational THEN NotRational
        ELSE IF c.n = 0 THEN Rat(0, 1)
        ELSE LET ys == [i \in DOMAIN xs |-> RatDiv(xs[i], c)]
             IN  LET L == LcmOver([i \in DOMAIN xs |-> ys[i].d], 0, N - 1)
                 IN  LET m == [i \in DOMAIN xs |-> ys[i].n * (L \div ys[i].d)]
                     IN  LET M == IntSumOver(m, 0, N - 1)
                         IN  LET S == IntSumOver([i \in DOMAIN xs |->
                                                     (N * m[i] - M) * (N * m[i] - M)], 0, N - 1)
                             IN  RatMul(c, RatDiv(RatSqrt(Rat(S, N)), Rat(N * L, 1)))

(* the horizontal offsets alone *)
RowNorms_XOnly(a, b) == [i \in DOMAIN a |-> NormQ(<<RatSub(a[i][1], b[i][1]), Rat(0, 1)>>)]

(* the sum of the horizontal and of the vertical offset *)
RowNorms_Manhattan(a, b) ==
    [i \in DOMAIN a |-> RatAdd(NormQ(<<RatSub(a[i][1], b[i][1]), Rat(0, 1)>>),
                               NormQ(<<RatSub(a[i][2], b[i][2]), Rat(0, 1)>>))]

(* np.linalg.norm(a - b, axis=1) *)
RowNorms(a, b) == [i \in DOMAIN a |-> NormQ(SubQ(a[i], b[i]))]

(* the inter-ocular distance floored at 1e-4 *)
EyeDist_Floor(gt_normalized) ==
    PyMaxQ(NormQ(SubQ(gt_normalized[8], gt_normalized[11])), Rat(1, 10000))

(* lines 66-68: the inter-ocular distance of the ground truth, floored *)
EyeDist(gt_normalized) ==
    PyMaxQ(NormQ(SubQ(gt_normalized[8], gt_normalized[11])), Eps)

(* analyze_results.py lines 50-76 on one image: the locals of the body *)
AnalyzeBody(img) ==
    LET gt_landmarks == img.gt_landmarks
        pred_landmarks == predict_landmarks(img.predictions, img.size)[1]
        img_width == img.size[1]
        img_height == img.size[2]
    IN
    LET gt_normalized == Normalize(gt_landmarks, img_width, img_height)
        pred_normalized == Normalize(pred_landmarks, img_width, img_height)
    IN
    LET eye_dist == EyeDist(gt_normalized)
        errors == RowNorms(pred_normalized, gt_normalized)
    IN
    LET mean_error == Mean(errors)
    IN  [gt_normalized |-> gt_normalized,
         pred_normalized |-> pred_normalized,
         eye_dist |-> eye_dist,
         mean_error |-> mean_error,
         nme |-> RatDiv(mean_error, eye_dist),
         landmark_errors |-> [i \in DOMAIN errors |-> RatDiv(errors[i], eye_dist)]]

(* lines 78-87: the entry appended to results *)
Report(img, loc) ==
    [image |-> img.file,
     nme |-> loc.nme,
     mean_error |-> loc.mean_error,
     max_landmark_error |-> MaxOf(loc.landmark_errors),
     min_landmark_error |-> MinOf(loc.landmark_errors),
     std_error |-> Std(loc.landmark_errors),
     image_size |-> img.size,
     errors |-> loc.landmark_errors]

(* inference.py lines 107-132 on one image: the locals of the body *)
EvaluateBody(img) ==
    LET gt_landmarks == img.gt_landmarks
        pred_landmarks == predict_landmarks(img.predictions, img.size)[1]
        img_width == img.size[1]
        img_height == img.size[2]
    IN
    LET gt_normalized == Normalize(gt_landmarks, img_width, img_height)
    IN
    LET eye_dist == EyeDist(gt_normalized)
        pred_normalized == Normalize(pred_landmarks, img_width, img_height)
    IN
    LET errors == RowNorms(pred_normalized, gt_normalized)
    IN
    LET mean_error == Mean(errors)
    IN  [gt_normalized |-> gt_normalized,
         pred_normalized |-> pred_normalized,
         eye_dist |-> eye_dist,
         mean_error |-> mean_error,
         nme |-> RatDiv(mean_error, eye_dist)]

(* The images.  The labels are a fixed face whose landmark 8 lies at      *)
(* an axis-parallel offset from landmark 11 (the null offset included);   *)
(* the prediction is the labels moved as a whole by a translation, with   *)
(* landmarks 8 and 47 moved further by a shift of their own.              *)

MaxSpan == 2

MaxShift == 3

EvalSizes == {<<8, 8>>, <<8, 6>>}

EyeSpans == {<<0, 0>>} \cup {<<k, 0>> : k \in 1 .. MaxSpan} \cup {<<0, k>> : k \in 1 .. MaxSpan}

Translations == {<<0, 0>>, <<0, 2>>}

ShiftGrid == (0 .. MaxShift) \X (0 .. MaxShift)

Labels(span) ==
    [i \in Idx |->
        IF i = 8 THEN Add(<<1, 1>>, span)
        ELSE IF i = 11 THEN <<1, 1>>
        ELSE <<1 + (i % 3), 1 + (i % 2)>>]

Prediction(labels, t, s8, s47) ==
    [i \in Idx |->
        IF i = 8 THEN Add(Add(labels[i], t), s8)
        ELSE IF i = 47 THEN Add(Add(labels[i], t), s47)
        ELSE Add(labels[i], t)]

(* the distance between two pixel points is rational after normalization *)
RationalApart(p, q, size) ==
    LET d == Sub(p, q)
    IN  IsSquare(d[1] * d[1] * size[2] * size[2] + d[2] * d[2] * size[1] * size[1])

Exact(labels, pred, size) == \A i \in Idx : RationalApart(pred[i], labels[i], size)

(* every point lies in the rectangle [0, width] x [0, height], where the   *)
(* Sigmoid keeps the network output                                        *)
Inside(lms, size) ==
    \A i \in DOMAIN lms : lms[i][1] \in 0 .. size[1] /\ lms[i][2] \in 0 .. size[2]

Image(span, t, s8, s47, size) ==
    [file |-> <<span, t, s8, s47>>,
     gt_landmarks |-> Labels(span),
     predictions |-> ModelOutput(Prediction(Labels(span), t, s8, s47), size),
     size |-> size]

InitEval ==
    /\ landmarks = None
    /\ eye_score = None
    /\ ears_score = None
    /\ muzzle_score = None
    /\ cps_pc = "not called"
    /\ weights = "none"
    /\ ret = None
    /\ error_printed = FALSE
    /\ \E span \in EyeSpans, t \in Translations, s8 \in ShiftGrid, s47 \in ShiftGrid,
          size \in EvalSizes :
          \E labels \in {Labels(span)} :
          \E pred \in {Prediction(labels, t, s8, s47)} :
              /\ Inside(pred, size)
              /\ Exact(labels, pred, size)
              /\ image = Image(span, t, s8, s47, size)
    /\ an_loc = None
    /\ results = <<>>
    /\ nme_values = <<>>
    /\ ev_loc = None
    /\ total_nme = Rat(0, 1)
    /\ NoBatch
    /\ NoRun

(* analyze_validation_results, lines 40-89, for the image *)
AnalyzeImage ==
    /\ an_loc = None
    /\ \E loc \in {AnalyzeBody(image)} :
          /\ an_loc' = loc
          /\ results' = Append(results, Report(image, loc))
          /\ nme_values' = Append(nme_values, loc.nme)
    /\ UNCHANGED <<classifier_vars, cps_vars, image, ev_loc, total_nme, batch_vars, item, run_vars>>

(* evaluate_model, lines 100-135, for the image *)
EvaluateImage ==
    /\ ev_loc = None
    /\ \E loc \in {EvaluateBody(image)} :
          /\ ev_loc' = loc
          /\ total_nme' = RatAdd(total_nme, loc.nme)
    /\ UNCHANGED <<classifier_vars, cps_vars, image, an_loc, results, nme_values, batch_vars, item, run_vars>>

NextEval == AnalyzeImage \/ EvaluateImage

SpecEval == InitEval /\ [][NextEval]_vars

-----------------------------------------------------------------------------
(* The same two loops on images whose prediction is the labels moved as a  *)
(* whole: every predicted point is its label plus one vector, and lies in  *)
(* the image.                                                              *)

MaxTranslation == 4

TranslationGrid == (0 .. MaxTranslation) \X (0 .. MaxTranslation)

InitShift ==
    /\ landmarks = None
    /\ eye_score = None
    /\ ears_score = None
    /\ muzzle_score = None
    /\ cps_pc = "not called"
    /\ weights = "none"
    /\ ret = None
    /\ error_printed = FALSE
    /\ \E span \in EyeSpans, t \in TranslationGrid, size \in EvalSizes :
          \E labels \in {Labels(span)} :
          \E pred \in {Prediction(labels, t, <<0, 0>>, <<0, 0>>)} :
              /\ Exact(labels, pred, size)
              /\ Inside(pred, size)
              /\ image = Image(span, t, <<0, 0>>, <<0, 0>>, size)
    /\ an_loc = None
    /\ results = <<>>
    /\ nme_values = <<>>
    /\ ev_loc = None
    /\ total_nme = Rat(0, 1)
    /\ NoBatch
    /\ NoRun

SpecShift == InitShift /\ [][NextEval]_vars

-----------------------------------------------------------------------------
(* The same two loops on an image file whose width or height is 0.  The    *)
(* output of the network is relative to the size, whatever the size is.    *)

ZeroSizes == {<<0, 8>>, <<8, 0>>, <<0, 0>>}

ZeroSizeImage(span, t, size) ==
    [file |-> <<span, t, size>>,
     gt_landmarks |-> Labels(span),
     predictions |-> ModelOutput(Prediction(Labels(span), t, <<0, 0>>, <<0, 0>>), <<8, 8>>),
     size |-> size]

InitZeroSize ==
    /\ landmarks = None
    /\ eye_score = None
    /\ ears_score = None
    /\ muzzle_score = None
    /\ cps_pc = "not called"
    /\ weights = "none"
    /\ ret = None
    /\ error_printed = FALSE
    /\ \E span \in EyeSpans, t \in TranslationGrid, size \in ZeroSizes :
          image = ZeroSizeImage(span, t, size)
    /\ an_loc = None
    /\ results = <<>>
    /\ nme_values = <<>>
    /\ ev_loc = None
    /\ total_nme = Rat(0, 1)
    /\ NoBatch
    /\ NoRun

SpecZeroSize == InitZeroSize /\ [][NextEval]_vars

-----------------------------------------------------------------------------
(* Label files whose 'labels' array has any number of points, read by      *)
(* CatLandmarkDataset.__getitem__ (dataset.py) and by evaluate_model.      *)

MaxLabels == 49

(* a label array of n points: the labels of an image cut or continued *)
LabelArray(n) ==
    [i \in 0 .. n - 1 |-> IF i \in Idx THEN Labels(<<2, 0>>)[i] ELSE <<1, 1>>]

LabelledImage(n, t, size) ==
    [file |-> <<n, t, size>>,
     gt_landmarks |-> LabelArray(n),
     predictions |-> ModelOutput(Prediction(Labels(<<2, 0>>), t, <<0, 0>>, <<0, 0>>), size),
     size |-> size]

InitLabels ==
    /\ landmarks = None
    /\ eye_score = None
    /\ ears_score = None
    /\ muzzle_score = None
    /\ cps_pc = "not called"
    /\ weights = "none"
    /\ ret = None
    /\ error_printed = FALSE
    /\ \E n \in 0 .. MaxLabels, t \in {<<0, 0>>, <<0, 2>>}, size \in EvalSizes :
          image = LabelledImage(n, t, size)
    /\ an_loc = None
    /\ results = <<>>
    /\ nme_values = <<>>
    /\ ev_loc = None
    /\ total_nme = Rat(0, 1)
    /\ NoBatch
    /\ NoRun

(* dataset.py lines 37-78 with normalize_landmarks: the array is divided   *)
(* by the size of the image and flattened, whatever its length; indexing   *)
(* the columns of an empty array raises IndexError                         *)
GetItem ==
    /\ item = None
    /\ \E lms \in {image.gt_landmarks} :
          item' = IF DOMAIN lms = {}
                  THEN [raised |-> "IndexError"]
                  ELSE LET normalized == Normalize(lms, image.size[1], image.size[2])
                       IN  [raised |-> "nothing",
                            target |-> [j \in 0 .. 2 * Cardinality(DOMAIN lms) - 1 |->
                                           normalized[j \div 2][(j % 2) + 1]]]
    /\ UNCHANGED <<classifier_vars, cps_vars, nme_vars, batch_vars, run_vars>>

(* inference.py lines 104-134 on a label array of any length: indexing     *)
(* points 8 and 11 raises IndexError on fewer than 12 points (line 122),   *)
(* and subtracting an (n, 2) array from the (48, 2) prediction raises      *)
(* ValueError for n other than 48 (line 130)                               *)
EvaluateLabelled ==
    /\ ev_loc = None
    /\ \E n \in {Cardinality(DOMAIN image.gt_landmarks)} :
          IF n < 12
          THEN ev_loc' = [raised |-> "IndexError"] /\ UNCHANGED total_nme
          ELSE IF n # NumLandmarks
          THEN ev_loc' = [raised |-> "ValueError"] /\ UNCHANGED total_nme
          ELSE \E loc \in {EvaluateBody(image)} :
                  /\ ev_loc' = loc
                  /\ total_nme' = RatAdd(total_nme, loc.nme)
    /\ UNCHANGED <<classifier_vars, cps_vars, image, an_loc, results, nme_values,
                   batch_vars, item, run_vars>>

NextLabels == GetItem \/ EvaluateLabelled

SpecLabels == InitLabels /\ [][NextLabels]_vars

-----------------------------------------------------------------------------
(* The evaluation of a directory of images: analyze_validation_results     *)
(* (the loop and the statistics that follow it) and evaluate_model (the    *)
(* loop and the average).  image_files lists the images in the order of    *)
(* their file names; an image is named here by its number in the pool.     *)

BatchSize == <<64, 8>>

(* the pool: the labelled eye span and the offset of the prediction, which *)
(* give the NME values 1/10, 1/5, 1/5, 3/10, 5, 1/2, 1 and 2               *)
PoolParams ==
    << << <<10, 0>>, <<1, 0>> >>, << <<10, 0>>, <<2, 0>> >>, << <<5, 0>>, <<1, 0>> >>,
       << <<10, 0>>, <<3, 0>> >>, << <<10, 0>>, <<50, 0>> >>, << <<10, 0>>, <<5, 0>> >>,
       << <<10, 0>>, <<10, 0>> >>, << <<10, 0>>, <<20, 0>> >> >>

PoolImage(k) == Image(PoolParams[k][1], PoolParams[k][2], <<0, 0>>, <<0, 0>>, BatchSize)

MaxBatch == 5

(* the elements of a set of numbers in increasing order *)
SortedSeq(S) ==
    [j \in 1 .. Cardinality(S) |-> CHOOSE x \in S : Cardinality({y \in S : y < x}) = j - 1]

(* the directories of at most MaxBatch images of the pool *)
Batches == {SortedSeq(S) : S \in {T \in SUBSET DOMAIN PoolParams : Cardinality(T) <= MaxBatch}}

(* a variant that interpolates without sorting *)
Percentile_Unsorted(a, q) ==
    LET pos == Rat((Len(a) - 1) * q, 100)
    IN  LET lo == pos.n \div pos.d
        IN  LET hi == IF lo + 1 < Len(a) THEN lo + 1 ELSE lo
            IN  RatAdd(a[lo + 1],
                       RatMul(RatSub(pos, Rat(lo, 1)), RatSub(a[hi + 1], a[lo + 1])))

(* np.percentile(a, q) with linear interpolation, a not empty *)
Percentile(a, q) ==
    LET sorted == SortSeq(a, RatLt)
        pos == Rat((Len(a) - 1) * q, 100)
    IN  LET lo == pos.n \div pos.d
        IN  LET hi == IF lo + 1 < Len(a) THEN lo + 1 ELSE lo
            IN  RatAdd(sorted[lo + 1],
                       RatMul(RatSub(pos, Rat(lo, 1)), RatSub(sorted[hi + 1], sorted[lo + 1])))

(* lines 109-112: the four bands *)
IsExcellent(nme) == RatLt(nme, Rat(1, 2))

IsGood_Open(nme) == RatLt(Rat(1, 2), nme) /\ RatLt(nme, Rat(1, 1))

IsGood(nme) == RatLe(Rat(1, 2), nme) /\ RatLt(nme, Rat(1, 1))

IsFair(nme) == RatLe(Rat(1, 1), nme) /\ RatLt(nme, Rat(2, 1))

IsPoor(nme) == RatLe(Rat(2, 1), nme)

(* what the statistics show of a report *)
Shown(r) == [image |-> r.image, nme |-> r.nme]

(* [Shown(r) for r in rs if Test(r['nme'])] *)
Filter(rs, Test(_)) ==
    LET kept == SelectSeq(rs, LAMBDA r : Test(r.nme))
    IN  [j \in 1 .. Len(kept) |-> Shown(kept[j])]

OutlierThreshold_Double(q1, q3) == RatAdd(q3, RatMul(Rat(2, 1), RatSub(q3, q1)))

(* lines 129-134 *)
OutlierThreshold(q1, q3) == RatAdd(q3, RatMul(Rat(3, 2), RatSub(q3, q1)))

(* NumPy float32 arithmetic on the NME values.  An NME is a np.float32    *)
(* (float32 arrays throughout), np.mean of float32 values sums in float32  *)
(* and, with NumPy 2 promotion, so does total_nme += nme.  A float32       *)
(* between 1/16 and 16 is a whole number of units of 2^-27, which is how   *)
(* the operators below compute; the values are held as rationals.  Outside *)
(* that range the result is NotRational.                                   *)
FloatUnit == 2 ^ 27

RECURSIVE BitLen(_)
BitLen(x) == IF x = 0 THEN 0 ELSE 1 + BitLen(x \div 2)

(* N / D units rounded to a 24-bit significand, ties to even *)
Round24(N, D) ==
    LET b == BitLen(N \div D)
    IN  LET g == IF b > 24 THEN 2 ^ (b - 24) ELSE 1
        IN  LET q == N \div (D * g)
            IN  LET r == N - q * D * g
                IN  IF 2 * r > D * g \/ (2 * r = D * g /\ q % 2 = 1)
                    THEN (q + 1) * g
                    ELSE q * g

(* N / D units is a float32, or large enough for units to hold its rounding *)
InUnits(N, D) == N % D = 0 \/ N \div D >= 2 ^ 23

(* np.float32(q) of an exact quotient q *)
Float32(q) ==
    IF q = NotRational \/ q.n < 0 \/ q.n >= 16 \/ q.n >= 16 * q.d
       \/ ~InUnits(q.n * FloatUnit, q.d)
    THEN NotRational
    ELSE Rat(Round24(q.n * FloatUnit, q.d), FloatUnit)

(* the units of a float32 *)
Units(a) == a.n * (FloatUnit \div a.d)

(* a + b in float32 *)
Float32Add(a, b) ==
    IF a = NotRational \/ b = NotRational THEN NotRational
    ELSE Rat(Round24(Units(a) + Units(b), 1), FloatUnit)

(* a / k in float32, k a positive int *)
Float32Div(a, k) ==
    IF a = NotRational \/ ~InUnits(Units(a), k) THEN NotRational
    ELSE Rat(Round24(Units(a), k), FloatUnit)

(* the float32 sum of the first k values, added in list order *)
RECURSIVE Float32Sum(_, _)
Float32Sum(nmes, k) ==
    IF k = 0 THEN Rat(0, 1)
    ELSE Float32Add(Float32Sum(nmes, k - 1), Float32(nmes[k]))

(* np.mean(nme_values), line 98 *)
Float32Mean(nmes) == Float32Div(Float32Sum(nmes, Len(nmes)), Len(nmes))

(* lines 91-134: np.min of an empty list raises ValueError (line 103) *)
Statistics(rs, nmes) ==
    IF nmes = <<>> THEN [raised |-> "ValueError"]
    ELSE LET q1 == Percentile(nmes, 25)
             q3 == Percentile(nmes, 75)
         IN  LET outlier_threshold == OutlierThreshold(q1, q3)
             IN  [raised |-> "nothing",
                  total |-> Len(rs),
                  mean |-> Float32Mean(nmes),
                  excellent |-> Filter(rs, IsExcellent),
                  good |-> Filter(rs, IsGood),
                  fair |-> Filter(rs, IsFair),
                  poor |-> Filter(rs, IsPoor),
                  q1 |-> q1,
                  q3 |-> q3,
                  outlier_threshold |-> outlier_threshold,
                  outliers |-> Filter(rs, LAMBDA nme : RatLt(outlier_threshold, nme))]

InitBatchVars ==
    /\ landmarks = None
    /\ eye_score = None
    /\ ears_score = None
    /\ muzzle_score = None
    /\ cps_pc = "not called"
    /\ weights = "none"
    /\ ret = None
    /\ error_printed = FALSE
    /\ image = None
    /\ an_loc = None
    /\ results = <<>>
    /\ nme_values = <<>>
    /\ ev_loc = None
    /\ total_nme = Rat(0, 1)
    /\ processed = 0
    /\ stats = None
    /\ avg_nme = None
    /\ item = None
    /\ NoRun

InitBatch ==
    /\ InitBatchVars
    /\ program \in {"analyze_validation_results", "evaluate_model"}
    /\ image_files \in Batches

(* analyze_validation_results, lines 40-89: one turn of the loop *)
AnalyzeNext ==
    /\ program = "analyze_validation_results"
    /\ processed < Len(image_files)
    /\ \E img \in {PoolImage(image_files[processed + 1])} :
       \E loc \in {AnalyzeBody(img)} :
          /\ image' = img
          /\ an_loc' = loc
          /\ results' = Append(results, Report(img, loc))
          /\ nme_values' = Append(nme_values, loc.nme)
    /\ processed' = processed + 1
    /\ UNCHANGED <<classifier_vars, cps_vars, ev_loc, total_nme,
                   program, image_files, stats, avg_nme, item, run_vars>>

(* analyze_validation_results, lines 91-138: after the loop *)
AnalyzeStatistics ==
    /\ program = "analyze_validation_results"
    /\ processed = Len(image_files)
    /\ stats = None
    /\ stats' = Statistics(results, nme_values)
    /\ UNCHANGED <<classifier_vars, cps_vars, nme_vars,
                   program, image_files, processed, avg_nme, item, run_vars>>

(* evaluate_model, lines 100-135: one turn of the loop *)
EvaluateNext ==
    /\ program = "evaluate_model"
    /\ processed < Len(image_files)
    /\ \E img \in {PoolImage(image_files[processed + 1])} :
       \E loc \in {EvaluateBody(img)} :
          /\ image' = img
          /\ ev_loc' = loc
          /\ total_nme' = Float32Add(total_nme, Float32(loc.nme))
    /\ processed' = processed + 1
    /\ UNCHANGED <<classifier_vars, cps_vars, an_loc, results, nme_values,
                   program, image_files, stats, avg_nme, item, run_vars>>

(* evaluate_model, lines 137-140: total_nme / 0 raises ZeroDivisionError *)
EvaluateAverage ==
    /\ program = "evaluate_model"
    /\ processed = Len(image_files)
    /\ avg_nme = None
    /\ avg_nme' = IF Len(image_files) = 0
                  THEN <<[raised |-> "ZeroDivisionError"]>>
                  ELSE <<Float32Div(total_nme, Len(image_files))>>
    /\ UNCHANGED <<classifier_vars, cps_vars, nme_vars,
                   program, image_files, processed, stats, item, run_vars>>

NextBatch == AnalyzeNext \/ AnalyzeStatistics \/ EvaluateNext \/ EvaluateAverage

SpecBatch == InitBatch /\ [][NextBatch]_vars

-----------------------------------------------------------------------------
(* The same loops over a directory whose file names list the images in any *)
(* order: sorted(os.listdir(...)) follows the names, whatever images they  *)
(* name.                                                                    *)

MaxOrder == 4

(* the images with the NME values 1/10, 1/5, 5, 1/2 and 1 *)
OrderPool == {1, 2, 5, 6, 7}

Orders ==
    {f \in UNION {[1 .. n -> OrderPool] : n \in 0 .. MaxOrder} :
        \A i, j \in DOMAIN f : i # j => f[i] # f[j]}

InitOrder ==
    /\ InitBatchVars
    /\ program \in {"analyze_validation_results", "evaluate_model"}
    /\ image_files \in Orders

SpecOrder == InitOrder /\ [][NextBatch]_vars

-----------------------------------------------------------------------------
(* Properties of the classifiers *)

(* squared pixel distance between landmarks i and j *)
SqDist(lm, i, j) == Dot(Sub(lm[i], lm[j]), Sub(lm[i], lm[j]))

(* sqrt(a2) / sqrt(b2) > p / q and >= p / q, for b2 > 0 *)
RatioGt(a2, b2, p, q) == a2 * q * q > p * p * b2

RatioGe(a2, b2, p, q) == a2 * q * q >= p * p * b2

EyelidsPositive(lm) ==
    /\ SqDist(lm, 9, 8) > 0
    /\ SqDist(lm, 10, 11) > 0
    /\ SqDist(lm, 5, 4) > 0
    /\ SqDist(lm, 7, 6) > 0

EarAngles(lm) ==
    [rA |-> AngleBetween(Sub(lm[25], lm[26]), Sub(lm[27], lm[26])),
     lA |-> AngleBetween(Sub(lm[28], lm[27]), Sub(lm[26], lm[27])),
     lV |-> AngleBetween(Sub(lm[31], lm[22]), Sub(lm[31], lm[30])),
     rV |-> AngleBetween(Sub(lm[31], lm[22]), Sub(lm[22], lm[23]))]

EarAnglesDefined(lm) ==
    /\ SqDist(lm, 25, 26) > 0
    /\ SqDist(lm, 27, 26) > 0
    /\ SqDist(lm, 28, 27) > 0
    /\ SqDist(lm, 31, 22) > 0
    /\ SqDist(lm, 31, 30) > 0
    /\ SqDist(lm, 22, 23) > 0

MuzzleHeightsPositive(lm) ==
    /\ SqDist(lm, 42, 21) > 0
    /\ SqDist(lm, 43, 19) > 0

C4_ScoreRange ==
    /\ eye_score # None => eye_score[1] \in {-1, 0, 1, 2}
    /\ ears_score # None => ears_score[1] \in {-1, 0, 1, 2}
    /\ muzzle_score # None => muzzle_score[1] \in {-1, 0, 1, 2}

(* the three classifiers have been applied to a set with a null segment *)
C4_Witness ==
    /\ eye_score # None
    /\ ears_score # None
    /\ muzzle_score # None
    /\ ~(EyelidsPositive(landmarks) /\ EarAnglesDefined(landmarks)
            /\ MuzzleHeightsPositive(landmarks))

-----------------------------------------------------------------------------
(* Properties of calculate_pain_score *)

(* C5: when calculate_pain_score has ended, 'ERROR' has been printed if and *)
(* only if at least one of the three sub-scores of the predicted landmark   *)
(* set is -1; with the three of them in {0, 1, 2} nothing is flagged.       *)
C5_ErrorFlag ==
    cps_pc \in {"done", "ValueError"} =>
        (error_printed <=> (eyes(ret[1]) = -1 \/ ears(ret[1]) = -1 \/ muzzle(ret[1]) = -1))

(* C6: with a checkpoint loaded, once predict_landmarks has returned the   *)
(* call goes on to its end: eyes, ears and muzzle have each been computed  *)
(* on the pixel-space landmark set that was returned, and nothing failed   *)
(* in between.                                                             *)
C6_Pipeline ==
    (weights = "checkpoint" /\ ret # None) =>
        /\ cps_pc = "done"
        /\ landmarks = ret[1]
        /\ eye_score = <<eyes(ret[1])>>
        /\ ears_score = <<ears(ret[1])>>
        /\ muzzle_score = <<muzzle(ret[1])>>

-----------------------------------------------------------------------------
(* Properties of the NME evaluation *)

(* the squared distance between the normalized images of the pixel points  *)
(* p and q                                                                 *)
SqDistQ(p, q, size) ==
    RatAdd(Rat((p[1] - q[1]) * (p[1] - q[1]), size[1] * size[1]),
           Rat((p[2] - q[2]) * (p[2] - q[2]), size[2] * size[2]))

(* f = max(sqrt(d2), 1e-5) *)
IsFlooredRoot(f, d2) ==
    IF f = Eps
    THEN RatLe(RatMul(d2, Rat(100000, 1)), Eps)
    ELSE RatLt(Eps, f) /\ RatMul(f, f) = d2

(* the pixel landmarks predicted for the image *)
Predicted == predict_landmarks(image.predictions, image.size)[1]

(* C7: the normalization factor of an evaluated image is the larger of     *)
(* 1e-5 and the distance between the normalized ground-truth landmarks 8   *)
(* and 11: it is strictly positive, and the labels and the dimensions of   *)
(* the image determine it, whatever was predicted.                         *)
C7_Factor ==
    LET d2 == SqDistQ(image.gt_landmarks[8], image.gt_landmarks[11], image.size)
    IN  /\ an_loc # None =>
              /\ RatLt(Rat(0, 1), an_loc.eye_dist)
              /\ IsFlooredRoot(an_loc.eye_dist, d2)
        /\ ev_loc # None =>
              /\ RatLt(Rat(0, 1), ev_loc.eye_dist)
              /\ IsFlooredRoot(ev_loc.eye_dist, d2)

(* both loops have evaluated an image whose labelled eye landmarks         *)
(* coincide and whose predicted landmark 8 is off its label                *)
C7_Witness ==
    /\ an_loc # None
    /\ ev_loc # None
    /\ image.gt_landmarks[8] = image.gt_landmarks[11]
    /\ Predicted[8] # image.gt_landmarks[8]
    /\ an_loc.eye_dist = Eps

MaxScale == 2

(* the image with every labelled pixel coordinate, the width and the       *)
(* height multiplied by k; the output of the model is relative to the size *)
Scaled(img, k) ==
    [file |-> img.file,
     gt_landmarks |-> [i \in Idx |-> <<k * img.gt_landmarks[i][1], k * img.gt_landmarks[i][2]>>],
     predictions |-> img.predictions,
     size |-> <<k * img.size[1], k * img.size[2]>>]

C10_ZeroIffEqual ==
    \E same \in {Predicted = image.gt_landmarks} :
        /\ an_loc # None =>
              /\ an_loc.nme = Rat(0, 1) <=> same
              /\ same <=> \A i \in Idx : an_loc.pred_normalized[i] = an_loc.gt_normalized[i]
        /\ ev_loc # None =>
              /\ ev_loc.nme = Rat(0, 1) <=> same
              /\ same <=> \A i \in Idx : ev_loc.pred_normalized[i] = ev_loc.gt_normalized[i]

(* a zero NME on an image whose labelled eye landmarks coincide *)
C10_Witness ==
    /\ an_loc # None
    /\ ev_loc # None
    /\ image.gt_landmarks[8] = image.gt_landmarks[11]
    /\ an_loc.nme = Rat(0, 1)
    /\ ev_loc.nme = Rat(0, 1)

(* the vector v with Predicted[i] = gt_landmarks[i] + v for every i, as    *)
(* <<v>>, and <<>> when there is none                                      *)
CommonShift ==
    LET pred == Predicted
    IN  LET v == Sub(pred[0], image.gt_landmarks[0])
        IN  IF pred = [i \in Idx |-> Add(image.gt_landmarks[i], v)] THEN <<v>> ELSE <<>>

-----------------------------------------------------------------------------
(* Properties of the evaluation of a directory *)

(* the statistics have been computed *)
HasStatistics == stats # None /\ stats.raised = "nothing"

(* x occurs in the sequence xs *)
Occurs(x, xs) == \E j \in 1 .. Len(xs) : xs[j] = x

(* C12: every per-image NME falls in exactly one of the bands excellent    *)
(* (NME < 0.5), good (0.5 <= NME < 1.0), fair (1.0 <= NME < 2.0) and poor  *)
(* (NME >= 2.0), so 0.5, 1.0 and 2.0 are good, fair and poor; the four     *)
(* band counts sum to the number of evaluated images.                      *)
C12_Bands ==
    HasStatistics =>
        /\ \A j \in 1 .. Len(results) :
              \E r \in {Shown(results[j])} :
                  /\ Occurs(r, stats.excellent) <=> RatLt(r.nme, Rat(1, 2))
                  /\ Occurs(r, stats.good) <=> (RatLe(Rat(1, 2), r.nme) /\ RatLt(r.nme, Rat(1, 1)))
                  /\ Occurs(r, stats.fair) <=> (RatLe(Rat(1, 1), r.nme) /\ RatLt(r.nme, Rat(2, 1)))
                  /\ Occurs(r, stats.poor) <=> RatLe(Rat(2, 1), r.nme)
                  /\ Cardinality({b \in {"excellent", "good", "fair", "poor"} :
                                      Occurs(r, stats[b])}) = 1
        /\ Len(stats.excellent) + Len(stats.good) + Len(stats.fair) + Len(stats.poor)
              = Len(image_files)
        /\ Len(results) = Len(image_files)

(* a batch with the NME values 0.5, 1.0 and 2.0 and an excellent image *)
C12_Witness ==
    /\ HasStatistics
    /\ \E j \in 1 .. Len(stats.good) : stats.good[j].nme = Rat(1, 2)
    /\ \E j \in 1 .. Len(stats.fair) : stats.fair[j].nme = Rat(1, 1)
    /\ \E j \in 1 .. Len(stats.poor) : stats.poor[j].nme = Rat(2, 1)
    /\ Len(stats.excellent) > 0

(* the NME values of the reports, in the order of the reports *)
ReportedNmes == [j \in 1 .. Len(results) |-> results[j].nme]

(* the batch with the NME values 0.1, 0.2, 0.2, 0.3 and 5.0 *)
ExampleBatch == image_files = <<1, 2, 3, 4, 5>> /\ ReportedNmes = <<Rat(1, 10), Rat(1, 5), Rat(1, 5), Rat(3, 10), Rat(5, 1)>>

(* C13: an image is reported as an outlier if and only if its NME is       *)
(* strictly greater than Q3 + 1.5 * (Q3 - Q1), Q1 and Q3 being the 25th    *)
(* and 75th percentiles of all the NME values of the batch; on the batch   *)
(* [0.1, 0.2, 0.2, 0.3, 5.0], Q1 = 0.2, Q3 = 0.3, the threshold is 0.45    *)
(* and exactly the value 5.0 is flagged.                                   *)
C13_Outliers ==
    HasStatistics =>
        \E q1 \in {Percentile(ReportedNmes, 25)}, q3 \in {Percentile(ReportedNmes, 75)} :
            /\ nme_values = ReportedNmes
            /\ Len(results) = Len(image_files)
            /\ \A j \in 1 .. Len(results) :
                  Occurs(Shown(results[j]), stats.outliers)
                      <=> RatLt(RatAdd(q3, RatMul(Rat(3, 2), RatSub(q3, q1))), results[j].nme)
            /\ \A j \in 1 .. Len(stats.outliers) :
                  \E k \in 1 .. Len(results) : stats.outliers[j] = Shown(results[k])
            /\ ExampleBatch =>
                  /\ q1 = Rat(1, 5)
                  /\ q3 = Rat(3, 10)
                  /\ stats.q1 = q1
                  /\ stats.q3 = q3
                  /\ stats.outlier_threshold = Rat(9, 20)
                  /\ Len(stats.outliers) = 1
                  /\ stats.outliers[1].nme = Rat(5, 1)

(* the statistics of the batch [0.1, 0.2, 0.2, 0.3, 5.0] *)
C13_Witness ==
    /\ HasStatistics
    /\ ExampleBatch
    /\ Len(stats.outliers) = 1

-----------------------------------------------------------------------------
(* Degenerate geometry *)

(* a segment that eyes divides by has no length *)
EyesDegenerate(lm) == SqDist(lm, 9, 8) = 0 \/ SqDist(lm, 5, 4) = 0

(* a segment that muzzle divides by has no length *)
MuzzleDegenerate(lm) == SqDist(lm, 42, 21) = 0 \/ SqDist(lm, 43, 19) = 0

(* C14: on a landmark set in which a segment used as the denominator of a  *)
(* ratio or as a vector of an angle has zero length, the classifier        *)
(* concerned does not raise and returns -1, none of the scores 0, 1, 2.    *)
C14_DegenerateSentinel ==
    /\ (eye_score # None /\ EyesDegenerate(landmarks)) => eye_score = <<-1>>
    /\ (ears_score # None /\ ~EarAnglesDefined(landmarks)) => ears_score = <<-1>>
    /\ (muzzle_score # None /\ MuzzleDegenerate(landmarks)) => muzzle_score = <<-1>>

-----------------------------------------------------------------------------
(* Images without an extent *)

(* C15: the evaluation of an image whose width or height is zero fails     *)
(* for that image and produces no report; no NaN or infinite NME is ever   *)
(* added to the results or to the running total.                           *)
C15_ZeroSizeRejected ==
    (image.size[1] = 0 \/ image.size[2] = 0) =>
        /\ results = <<>>
        /\ nme_values = <<>>
        /\ total_nme = Rat(0, 1)

-----------------------------------------------------------------------------
(* Missing resources *)

(* C16: when the checkpoint file is absent, calculate_pain_score stops     *)
(* before any landmark prediction is produced: a model that was not        *)
(* loaded from the checkpoint never predicts.                              *)
C16_NoSubstitution == weights = "untrained" => ret = None

-----------------------------------------------------------------------------
(* The number of points of a landmark set *)

(* C17: every landmark set that reaches a consumer has exactly 48 points:  *)
(* a label array of another length is never made into a training target   *)
(* and never enters an NME, and the predicted set has 48 points.           *)
C17_FortyEightPoints ==
    /\ (item # None /\ item.raised = "nothing") =>
          Cardinality(DOMAIN image.gt_landmarks) = 48
    /\ (ev_loc # None /\ "nme" \in DOMAIN ev_loc) =>
          /\ Cardinality(DOMAIN image.gt_landmarks) = 48
          /\ Cardinality(DOMAIN ev_loc.pred_normalized) = 48

(* C18: every call of eyes (of ears, of muzzle) on the same landmark set   *)
(* returns the value its first call returned, whatever other calls were    *)
(* made in between, and no call changes the landmark set.                  *)
SameReturns(scores) == \A j \in DOMAIN scores : scores[j] = scores[1]

Listed == SortedSeq({image_files[k] : k \in DOMAIN image_files})

(* the report of each listed image, processed as the only image of a batch *)
AloneReports ==
    [k \in 1 .. Len(image_files) |->
        LET img == PoolImage(Listed[k]) IN Report(img, AnalyzeBody(img))]

(* the NME of each listed image in evaluate_model, processed alone *)
AloneNmes ==
    [k \in 1 .. Len(image_files) |-> EvaluateBody(PoolImage(Listed[k])).nme]

NmesOf(rs) == [k \in 1 .. Len(rs) |-> rs[k].nme]

RangeOf(seq) == {seq[k] : k \in DOMAIN seq}

(* two float32 averages of n values differ by at most n * 2^-22 of the larger *)
UpToRounding(a, b, n) ==
    LET x == Units(a)
        y == Units(b)
    IN  Abs(x - y) <= (n * (IF x > y THEN x ELSE y)) \div (2 ^ 22)

(* what the order of processing leaves alone: every report is the report   *)
(* of its image processed alone, and the band counts and the set of        *)
(* outliers are those of the images listed by increasing number            *)
OrderFree(alone, ref) ==
    /\ Len(results) = Len(image_files)
    /\ \A j \in 1 .. Len(results) :
          \E k \in 1 .. Len(alone) : Listed[k] = image_files[j] /\ results[j] = alone[k]
    /\ Len(stats.excellent) = Len(ref.excellent)
    /\ Len(stats.good) = Len(ref.good)
    /\ Len(stats.fair) = Len(ref.fair)
    /\ Len(stats.poor) = Len(ref.poor)
    /\ RangeOf(stats.outliers) = RangeOf(ref.outliers)

(* C19 as stated: the report of an image depends on that image only, and   *)
(* the batch average, the band counts and the set of outliers are the same *)
(* for every processing order of the same images.                          *)
C19_OrderIndependent ==
    /\ (HasStatistics /\ image_files # <<>>) =>
          \E alone \in {AloneReports} :
          \E ref \in {Statistics(alone, NmesOf(alone))} :
             /\ OrderFree(alone, ref)
             /\ stats.mean = ref.mean
    /\ (avg_nme # None /\ image_files # <<>>) =>
          avg_nme[1] = Float32Mean(AloneNmes)

(* C19, amended: the report of an image depends on that image only, the    *)
(* band counts and the set of outliers are the same for every processing   *)
(* order of the same images, and the batch averages of two orders are      *)
(* equal up to the rounding of the float32 running sum.                    *)
C19_OrderUpToRounding ==
    /\ (HasStatistics /\ image_files # <<>>) =>
          \E alone \in {AloneReports} :
          \E ref \in {Statistics(alone, NmesOf(alone))} :
             /\ OrderFree(alone, ref)
             /\ UpToRounding(stats.mean, ref.mean, Len(image_files))
    /\ (avg_nme # None /\ image_files # <<>>) =>
          UpToRounding(avg_nme[1], Float32Mean(AloneNmes), Len(image_files))

(* four images processed out of order, one of them an outlier, with a mean *)
(* that differs from the mean of the listed order                          *)
C19_Witness ==
    /\ HasStatistics
    /\ Len(image_files) = 4
    /\ image_files # Listed
    /\ Len(stats.outliers) = 1
    /\ Len(stats.excellent) = 2
    /\ stats.mean # Float32Mean(NmesOf(AloneReports))

(* the pixel landmarks are the normalized ones times the size, inside the image *)
ScaledInside(out, size) ==
    /\ \A i \in Idx : /\ RatMul(out[2][i][1], Rat(size[1], 1)) = Rat(out[1][i][1], 1)
                      /\ RatMul(out[2][i][2], Rat(size[2], 1)) = Rat(out[1][i][2], 1)
    /\ Inside(out[1], size)

-----------------------------------------------------------------------------
(* Further properties of the classifiers *)

(* the conditions under which ears is said to return 1: an ear angle is    *)
(* >= 115, the smaller ear angle is <= 145, the larger vertical angle lies *)
(* in [70, 75], and the smaller ear angle is < 115 or > 125                *)
IntermediateEars(a) ==
    /\ AGe(a.lA, Deg115) \/ AGe(a.rA, Deg115)
    /\ ALe(a.lA, Deg145) \/ ALe(a.rA, Deg145)
    /\ AGe(a.lV, Deg70) \/ AGe(a.rV, Deg70)
    /\ ALe(a.lV, Deg75) /\ ALe(a.rV, Deg75)
    /\ \/ ALt(a.lA, Deg115) \/ ALt(a.rA, Deg115)
       \/ AGt(a.lA, Deg125) /\ AGt(a.rA, Deg125)

(* C21: ears returns 1 exactly when at least one ear angle is >= 115, the  *)
(* minimum ear angle is <= 145, the maximum vertical angle lies in         *)
(* [70, 75] and the minimum ear angle is < 115 or > 125; a maximum         *)
(* vertical angle < 70 with at least one ear angle >= 115 gives 2.         *)
C21_IntermediateEars ==
    ears_score # None =>
        \E a \in {EarAngles(landmarks)} :
            /\ ears_score = <<1>> <=> IntermediateEars(a)
            /\ ((ALt(a.lV, Deg70) /\ ALt(a.rV, Deg70))
                  /\ (AGe(a.lA, Deg115) \/ AGe(a.rA, Deg115))) => ears_score = <<2>>

(* the landmarks the claim gives to each classifier *)
EyesSubset == 4 .. 11

EarsSubset == {22, 23, 25, 26, 27, 28, 30, 31}

MuzzleSubset == {19, 21, 32, 35, 42, 43, 44, 45}

(* the landmarks of S are where they were *)
Kept(S) == \A i \in S : landmarks'[i] = landmarks[i]

(* C22: the three subsets are pairwise disjoint, and a change of landmarks *)
(* outside the subset of a classifier never changes the score of that      *)
(* classifier.                                                             *)
C22_Frame ==
    [][/\ EyesSubset \cap EarsSubset = {}
       /\ EyesSubset \cap MuzzleSubset = {}
       /\ EarsSubset \cap MuzzleSubset = {}
       /\ (eye_score # None /\ eye_score' # None /\ Kept(EyesSubset))
             => eye_score' = eye_score
       /\ (ears_score # None /\ ears_score' # None /\ Kept(EarsSubset))
             => ears_score' = ears_score
       /\ (muzzle_score # None /\ muzzle_score' # None /\ Kept(MuzzleSubset))
             => muzzle_score' = muzzle_score]_vars

(* an ear landmark has moved: the ears score has changed, the other two    *)
(* have not                                                                *)
C22_Witness ==
    /\ landmarks[30] # CompactFace[30]
    /\ \A i \in Idx \ {30} : landmarks[i] = CompactFace[i]
    /\ ears_score # None
    /\ ears_score # <<ears(CompactFace)>>
    /\ eye_score = <<eyes(CompactFace)>>
    /\ muzzle_score = <<muzzle(CompactFace)>>

-----------------------------------------------------------------------------
(* The classifiers as NumPy computes them.  The landmarks are a float32    *)
(* array, so np.linalg.norm returns the float32 square root of the sum of  *)
(* the squares and a ratio is the float32 quotient of two of them.  A      *)
(* positive float32 is held as m * 2^e with 2^23 <= m < 2^24, zero as      *)
(* m = 0.  With whole coordinates the sum of the squares is exact.         *)
Zero32 == [m |-> 0, e |-> 0]

(* q * 2^e with 2^24 <= q < 2^25, and sticky for a remainder below the     *)
(* last bit of q, rounded to 24 bits, ties to even                         *)
RoundBits(q, sticky, e) ==
    IF q % 2 = 0 \/ (~sticky /\ (q \div 2) % 2 = 0)
    THEN [m |-> q \div 2, e |-> e + 1]
    ELSE IF q \div 2 + 1 = 2 ^ 24
         THEN [m |-> 2 ^ 23, e |-> e + 2]
         ELSE [m |-> q \div 2 + 1, e |-> e + 1]

(* n = (r * r + rem) * 4^e with rem <= 2 * r: one more bit of the root at  *)
(* a time until it has 25                                                  *)
RECURSIVE SqrtBits(_, _, _)
SqrtBits(r, rem, e) ==
    IF r >= 2 ^ 24 THEN RoundBits(r, rem # 0, e)
    ELSE IF 4 * rem >= 4 * r + 1
         THEN SqrtBits(2 * r + 1, 4 * rem - (4 * r + 1), e - 1)
         ELSE SqrtBits(2 * r, 4 * rem, e - 1)

(* the float32 square root of a whole number *)
Sqrt32(n) ==
    IF n = 0 THEN Zero32
    ELSE LET r == ISqrt(n) IN SqrtBits(r, n - r * r, 0)

(* the quotient is (q + rem / d) * 2^e: one more bit at a time *)
RECURSIVE DivBits(_, _, _, _)
DivBits(q, rem, d, e) ==
    IF q >= 2 ^ 24 THEN RoundBits(q, rem # 0, e)
    ELSE IF 2 * rem >= d
         THEN DivBits(2 * q + 1, 2 * rem - d, d, e - 1)
         ELSE DivBits(2 * q, 2 * rem, d, e - 1)

(* a / b in float32, b positive *)
Div32(a, b) ==
    IF a.m = 0 THEN Zero32
    ELSE DivBits(a.m \div b.m, a.m % b.m, b.m, a.e - b.e)

Lt32(a, b) ==
    IF b.m = 0 THEN FALSE
    ELSE a.m = 0 \/ a.e < b.e \/ (a.e = b.e /\ a.m < b.m)

Min32(a, b) == IF Lt32(b, a) THEN b ELSE a

Max32(a, b) == IF Lt32(a, b) THEN b ELSE a

(* a > p / q and a < p / q for a threshold p / q of the ladders.  The      *)
(* thresholds 0.7 and 0.8 of the source are doubles, but no float32 lies   *)
(* between the double and the decimal fraction.  Below 2^-4 and from 2^4   *)
(* on the answer needs no arithmetic.                                      *)
Gt32(a, p, q) ==
    IF a.m = 0 \/ a.e < -27 THEN FALSE
    ELSE IF a.e > -20 THEN TRUE
    ELSE a.m * q > p * 2 ^ (-a.e)

Lt32Dec(a, p, q) ==
    IF a.m = 0 \/ a.e < -27 THEN TRUE
    ELSE IF a.e > -20 THEN FALSE
    ELSE a.m * q < p * 2 ^ (-a.e)

(* np.linalg.norm of a float32 vector of whole numbers *)
norm32(p) == Sqrt32(p[1] * p[1] + p[2] * p[2])

(* lines 17-20 of eyes on float32 ratios *)
EyesLadder32(l_ratio, r_ratio) ==
    IF Gt32(Min32(l_ratio, r_ratio), 1, 1) THEN -1
    ELSE IF Gt32(Min32(l_ratio, r_ratio), 7, 10) THEN 0
    ELSE IF ~Lt32Dec(Min32(l_ratio, r_ratio), 1, 2) THEN 1
    ELSE 2

(* a variant that measures the left eye from the origin *)
eyes32_FromOrigin(lm) ==
    IF SqDist(lm, 9, 8) = 0 \/ SqDist(lm, 5, 4) = 0 THEN eyes(lm)
    ELSE EyesLadder32(Div32(norm32(Sub(lm[10], lm[11])), norm32(lm[9])),
                      Div32(norm32(Sub(lm[7], lm[6])), norm32(Sub(lm[5], lm[4]))))

(* eyes in float32.  With a horizontal distance of zero a ratio is inf or  *)
(* nan, which no rounding changes: the score is that of eyes above.        *)
eyes32(lm) ==
    IF SqDist(lm, 9, 8) = 0 \/ SqDist(lm, 5, 4) = 0 THEN eyes(lm)
    ELSE LET left_eye_horizontal_distance == norm32(Sub(lm[9], lm[8]))
             left_eye_vertical_distance == norm32(Sub(lm[10], lm[11]))
             right_eye_horizontal_distance == norm32(Sub(lm[5], lm[4]))
             right_eye_vertical_distance == norm32(Sub(lm[7], lm[6]))
         IN  LET r_ratio == Div32(right_eye_vertical_distance,
                                  right_eye_horizontal_distance)
                 l_ratio == Div32(left_eye_vertical_distance,
                                  left_eye_horizontal_distance)
             IN  EyesLadder32(l_ratio, r_ratio)

(* lines 60-63 of muzzle on float32 ratios *)
MuzzleLadder32(l_muzzle_ratio, r_muzzle_ratio) ==
    IF Gt32(Max32(l_muzzle_ratio, r_muzzle_ratio), 2, 1) THEN 2
    ELSE IF Gt32(Max32(l_muzzle_ratio, r_muzzle_ratio), 3, 2) THEN 1
    ELSE IF Lt32Dec(Max32(l_muzzle_ratio, r_muzzle_ratio), 4, 5) THEN -1
    ELSE 0

(* muzzle in float32; with a height of zero the score is that of muzzle    *)
(* above                                                                   *)
muzzle32(lm) ==
    IF SqDist(lm, 42, 21) = 0 \/ SqDist(lm, 43, 19) = 0 THEN muzzle(lm)
    ELSE LET l_muzzle_width == norm32(Sub(lm[44], lm[32]))
             r_muzzle_width == norm32(Sub(lm[45], lm[35]))
             l_muzzle_height == norm32(Sub(lm[42], lm[21]))
             r_muzzle_height == norm32(Sub(lm[43], lm[19]))
         IN  LET l_muzzle_ratio == Div32(l_muzzle_width, l_muzzle_height)
                 r_muzzle_ratio == Div32(r_muzzle_width, r_muzzle_height)
             IN  MuzzleLadder32(l_muzzle_ratio, r_muzzle_ratio)

(* Faces with slanted segments, whose lengths are not whole numbers.  The  *)
(* left eye is 10 steps wide and k steps open, the left side of the muzzle *)
(* 10 steps high and j steps wide, a step being one of Steps; the right    *)
(* eye is wide open and the right side of the muzzle narrow, so that the   *)
(* left side decides both scores.                                          *)
MaxEyeSteps == 11

MaxMuzzleSteps == 21

Steps == {<<1, 2>>, <<1, 1>>, <<2, 1>>}

Times(k, u) == <<k * u[1], k * u[2]>>

SlantedFace(u, k, j) ==
    [Neutral EXCEPT ![9] = Add(Neutral[8], Times(10, u)),
                    ![10] = Add(Neutral[11], Times(k, u)),
                    ![7] = Add(Neutral[6], <<0, 12>>),
                    ![44] = Add(Neutral[32], Times(j, u)),
                    ![42] = Add(Neutral[21], Times(10, u)),
                    ![45] = Add(Neutral[35], <<1, 0>>)]

InitSimilar ==
    /\ \E u \in Steps, k \in 1 .. MaxEyeSteps, j \in 1 .. MaxMuzzleSteps :
           landmarks = SlantedFace(u, k, j)
    /\ eye_score = None
    /\ ears_score = None
    /\ muzzle_score = None
    /\ cps_pc = "not called"
    /\ weights = "none"
    /\ ret = None
    /\ error_printed = FALSE
    /\ NoEvaluation
    /\ NoBatch
    /\ NoRun

CallEyes32 ==
    /\ eye_score = None
    /\ eye_score' = <<eyes32(landmarks)>>
    /\ UNCHANGED <<landmarks, ears_score, muzzle_score, cps_vars, nme_vars, batch_vars, item, run_vars>>

CallMuzzle32 ==
    /\ muzzle_score = None
    /\ muzzle_score' = <<muzzle32(landmarks)>>
    /\ UNCHANGED <<landmarks, eye_score, ears_score, cps_vars, nme_vars, batch_vars, item, run_vars>>

NextSimilar == CallEyes32 \/ CallEars \/ CallMuzzle32

SpecSimilar == InitSimilar /\ [][NextSimilar]_vars

(* all the landmarks moved by v, and all of them scaled by k *)
Translated(lm, v) == [i \in DOMAIN lm |-> Add(lm[i], v)]

ScaledBy(lm, k) == [i \in DOMAIN lm |-> Times(k, lm[i])]

MaxFactor == 3

(* the second vector takes the inner corner of the left eye of the faces   *)
(* above to the origin                                                     *)
Shifts == {<<3, -2>>, <<-30, -20>>}

(* the images of a landmark set under the translations and the scalings *)
Similar(lm) ==
    {Translated(lm, v) : v \in Shifts} \cup {ScaledBy(lm, k) : k \in 2 .. MaxFactor}

NonDegenerate(lm) ==
    /\ EyelidsPositive(lm)
    /\ EarAnglesDefined(lm)
    /\ MuzzleHeightsPositive(lm)

(* in exact arithmetic the three scores are those of the translated and    *)
(* of the scaled set                                                       *)
SimilarityExact ==
    NonDegenerate(landmarks) =>
        \A lm \in Similar(landmarks) :
            /\ eye_score # None => eyes(lm) = eye_score[1]
            /\ ears_score # None => ears(lm) = ears_score[1]
            /\ muzzle_score # None => muzzle(lm) = muzzle_score[1]

RatioEq(a2, b2, p, q) == a2 * q * q = p * p * b2

EyeRatioOnThreshold(lm) ==
    \E e \in {<<10, 11, 9, 8>>, <<7, 6, 5, 4>>}, t \in {<<1, 1>>, <<7, 10>>, <<1, 2>>} :
        RatioEq(SqDist(lm, e[1], e[2]), SqDist(lm, e[3], e[4]), t[1], t[2])

MuzzleRatioOnThreshold(lm) ==
    \E e \in {<<44, 32, 42, 21>>, <<45, 35, 43, 19>>}, t \in {<<2, 1>>, <<3, 2>>, <<4, 5>>} :
        RatioEq(SqDist(lm, e[1], e[2]), SqDist(lm, e[3], e[4]), t[1], t[2])

-----------------------------------------------------------------------------
(* The NME of validate_on_val_set.py and of train.validate, next to those  *)
(* of evaluate_model and analyze_validation_results.                       *)

(* validate_on_val_set.py lines 64-93 on one image: the locals of the body *)
ValSetBody(img) ==
    LET gt_landmarks == img.gt_landmarks
        pred_landmarks == predict_landmarks(img.predictions, img.size)[1]
        img_width == img.size[1]
        img_height == img.size[2]
    IN
    LET gt_normalized == Normalize(gt_landmarks, img_width, img_height)
        pred_normalized == Normalize(pred_landmarks, img_width, img_height)
    IN
    LET eye_dist == EyeDist(gt_normalized)
        errors == RowNorms(pred_normalized, gt_normalized)
    IN
    LET mean_error == Mean(errors)
    IN  [gt_normalized |-> gt_normalized,
         pred_normalized |-> pred_normalized,
         eye_dist |-> eye_dist,
         mean_error |-> mean_error,
         nme |-> RatDiv(mean_error, eye_dist)]

(* view(-1, 48, 2) of a flat tensor of 96 numbers *)
View(flat) == [i \in Idx |-> <<flat[2 * i], flat[2 * i + 1]>>]

(* a variant that normalizes by the inter-ocular distance of the           *)
(* prediction, eye_dist_pred                                               *)
ValidateSample_PredictedEyes(predictions, target) ==
    LET pred_landmarks == predictions
        gt_landmarks == View(target)
    IN
    LET eye_dist_pred == NormQ(SubQ(pred_landmarks[8], pred_landmarks[11]))
    IN
    LET eye_dist == PyMaxQ(eye_dist_pred, Eps)
        errors == RowNorms(pred_landmarks, gt_landmarks)
    IN
    LET mean_errors == Mean(errors)
    IN  [eye_dist |-> eye_dist,
         mean_errors |-> mean_errors,
         nme_per_sample |-> RatDiv(mean_errors, eye_dist)]

(* train.py lines 58-72 for one sample of the batch: predictions is the    *)
(* output of the model for the image, target the landmarks of the dataset  *)
(* item; eye_dist_pred (line 65) is computed and not used                  *)
ValidateSample(predictions, target) ==
    LET pred_landmarks == predictions
        gt_landmarks == View(target)
    IN
    LET eye_dist_gt == NormQ(SubQ(gt_landmarks[8], gt_landmarks[11]))
    IN
    LET eye_dist == PyMaxQ(eye_dist_gt, Eps)
        errors == RowNorms(pred_landmarks, gt_landmarks)
    IN
    LET mean_errors == Mean(errors)
    IN  [eye_dist |-> eye_dist,
         mean_errors |-> mean_errors,
         nme_per_sample |-> RatDiv(mean_errors, eye_dist)]

(* the images: those of the evaluation above with landmark 47 predicted    *)
(* on its label or 3 pixels to its right                                   *)
InitAgree ==
    /\ landmarks = None
    /\ eye_score = None
    /\ ears_score = None
    /\ muzzle_score = None
    /\ cps_pc = "not called"
    /\ weights = "none"
    /\ ret = None
    /\ error_printed = FALSE
    /\ \E span \in EyeSpans, t \in Translations, s8 \in ShiftGrid,
          s47 \in {<<0, 0>>, <<3, 0>>}, size \in EvalSizes :
          \E labels \in {Labels(span)} :
          \E pred \in {Prediction(labels, t, s8, s47)} :
              /\ Inside(pred, size)
              /\ Exact(labels, pred, size)
              /\ image = Image(span, t, s8, s47, size)
    /\ an_loc = None
    /\ results = <<>>
    /\ nme_values = <<>>
    /\ ev_loc = None
    /\ total_nme = Rat(0, 1)
    /\ NoBatch
    /\ NoRun

(* validate_on_val_set.py, lines 60-96, for the image *)
ValSetImage ==
    /\ vs_loc = None
    /\ vs_loc' = ValSetBody(image)
    /\ UNCHANGED <<classifier_vars, cps_vars, nme_vars, batch_vars, item, tv_loc, copy_vars, dir_vars, main_vars>>

(* train.validate, lines 47-74, for the batch that holds the image *)
ValidateBatch ==
    /\ item # None
    /\ tv_loc = None
    /\ tv_loc' = ValidateSample(image.predictions, item.target)
    /\ UNCHANGED <<classifier_vars, cps_vars, nme_vars, batch_vars, item, vs_loc, copy_vars, dir_vars, main_vars>>

NextAgree == AnalyzeImage \/ EvaluateImage \/ ValSetImage \/ GetItem \/ ValidateBatch

SpecAgree == InitAgree /\ [][NextAgree]_vars

-----------------------------------------------------------------------------
(* The arrays of predict_landmarks and of the loop body of evaluate_model. *)
(* An array is an entry of heap and a name is bound to the number of its   *)
(* entry, so that two names of one array show; the coordinates are float32 *)
(* values as above.                                                        *)

(* np.float32 of a whole number from 1 to 2^24 *)
Int32(k) == [m |-> k * 2 ^ (24 - BitLen(k)), e |-> BitLen(k) - 24]

(* a * k in float32, k a whole number from 1 to 127 *)
Mul32(a, k) ==
    IF a.m = 0 THEN Zero32
    ELSE LET p == a.m * k
             b == BitLen(a.m * k)
         IN  IF b <= 25
             THEN RoundBits(p * 2 ^ (25 - b), FALSE, a.e - (25 - b))
             ELSE RoundBits(p \div 2 ^ (b - 25), p % 2 ^ (b - 25) # 0, a.e + (b - 25))

(* arr[:, 0] *= w; arr[:, 1] *= h and arr[:, 0] /= w; arr[:, 1] /= h *)
MulRows(arr, w, h) == [i \in DOMAIN arr |-> <<Mul32(arr[i][1], w), Mul32(arr[i][2], h)>>]

DivRows(arr, w, h) ==
    [i \in DOMAIN arr |-> <<Div32(arr[i][1], Int32(w)), Div32(arr[i][2], Int32(h))>>]

(* a variant that returns the array itself *)
Copy_Alias(h, r) == [heap |-> h, ref |-> r]

(* arr.copy(): a new array with the contents of array r *)
Copy(h, r) == [heap |-> Append(h, h[r]), ref |-> Len(h) + 1]

(* the outputs of the network: float32 values just below a power of two,   *)
(* which vary with the landmark                                            *)
MaxBelow == 12

Exponents == {-24, -25}

Output32(k, e) ==
    [i \in Idx |-> <<[m |-> 2 ^ 24 - 1 - ((k + i) % MaxBelow), e |-> e],
                     [m |-> 2 ^ 24 - 1 - ((k + 2 * i) % MaxBelow), e |-> e - 1]>>]

Labels32(span) ==
    [i \in Idx |-> <<Int32(Labels(span)[i][1]), Int32(Labels(span)[i][2])>>]

InitCopy ==
    /\ landmarks = None
    /\ eye_score = None
    /\ ears_score = None
    /\ muzzle_score = None
    /\ cps_pc = "not called"
    /\ weights = "none"
    /\ ret = None
    /\ error_printed = FALSE
    /\ \E k \in 0 .. MaxBelow, e \in Exponents, size \in ImageSizes :
          image = [file |-> <<k, e>>,
                   gt_landmarks |-> Labels32(<<1, 0>>),
                   predictions |-> Output32(k, e),
                   size |-> size]
    /\ an_loc = None
    /\ results = <<>>
    /\ nme_values = <<>>
    /\ ev_loc = None
    /\ total_nme = Rat(0, 1)
    /\ NoBatch
    /\ NoRun

(* inference.py lines 56-86: predict_landmarks, which returns the arrays   *)
(* that evaluate_model names pred_landmarks and _                          *)
PredictArrays ==
    /\ heap = <<>>
    /\ \E c \in {Copy(<<image.predictions>>, 1)} :
          /\ heap' = [c.heap EXCEPT ![c.ref] =
                         MulRows(c.heap[c.ref], image.size[1], image.size[2])]
          /\ binding' = [name \in {"landmarks_normalized", "landmarks"} |->
                            IF name = "landmarks" THEN c.ref ELSE 1]
    /\ UNCHANGED <<classifier_vars, cps_vars, nme_vars, batch_vars, item, val_vars, dir_vars, main_vars>>

(* inference.py lines 104-128: the arrays of the loop body *)
EvaluateArrays ==
    /\ heap # <<>>
    /\ "pred_normalized" \notin DOMAIN binding
    /\ \E h1 \in {Append(heap, image.gt_landmarks)} :
       \E gt \in {Copy(h1, Len(h1))} :
       \E h2 \in {[gt.heap EXCEPT ![gt.ref] =
                      DivRows(gt.heap[gt.ref], image.size[1], image.size[2])]} :
       \E pred \in {Copy(h2, binding["landmarks"])} :
          /\ heap' = [pred.heap EXCEPT ![pred.ref] =
                         DivRows(pred.heap[pred.ref], image.size[1], image.size[2])]
          /\ binding' = [name \in {"landmarks_normalized", "landmarks", "pred_landmarks",
                                   "gt_landmarks", "gt_normalized", "pred_normalized"} |->
                            CASE name = "pred_landmarks" -> binding["landmarks"]
                              [] name = "gt_landmarks" -> Len(h1)
                              [] name = "gt_normalized" -> gt.ref
                              [] name = "pred_normalized" -> pred.ref
                              [] OTHER -> binding[name]]
    /\ UNCHANGED <<classifier_vars, cps_vars, nme_vars, batch_vars, item, val_vars, dir_vars, main_vars>>

NextCopy == PredictArrays \/ EvaluateArrays

SpecCopy == InitCopy /\ [][NextCopy]_vars

Named(name) == heap[binding[name]]

(* the arrays that were handed on are as they were made *)
ArraysKept ==
    /\ "landmarks" \in DOMAIN binding =>
           Named("landmarks_normalized") = image.predictions
    /\ "pred_normalized" \in DOMAIN binding =>
           /\ Named("pred_landmarks") = MulRows(image.predictions, image.size[1], image.size[2])
           /\ Named("gt_landmarks") = image.gt_landmarks

(* C25 as stated: the normalized pixel landmarks are exactly the output of *)
(* the predictor, and the arrays handed on are not modified.               *)
C25_RoundTrip ==
    /\ ArraysKept
    /\ "pred_normalized" \in DOMAIN binding =>
           Named("pred_normalized") = Named("landmarks_normalized")

(* z is x or one of the two float32 values next to it *)
NextTo(z, x) ==
    \/ z = x
    \/ z.e = x.e /\ (z.m = x.m + 1 \/ z.m = x.m - 1)
    \/ z.e = x.e + 1 /\ x.m = 2 ^ 24 - 1 /\ z.m = 2 ^ 23
    \/ z.e = x.e - 1 /\ x.m = 2 ^ 23 /\ (z.m = 2 ^ 24 - 1 \/ z.m = 2 ^ 24 - 2)

(* C25 amended: every normalized pixel coordinate is the output of the     *)
(* predictor or a float32 value next to it, and the arrays handed on are   *)
(* not modified.                                                           *)
C25_RoundTripUpToRounding ==
    /\ ArraysKept
    /\ "pred_normalized" \in DOMAIN binding =>
           \A i \in Idx, c \in 1 .. 2 :
               NextTo(Named("pred_normalized")[i][c], Named("landmarks_normalized")[i][c])

(* an evaluated image 50 pixels wide with a coordinate that does not come  *)
(* back                                                                    *)
C25_Witness ==
    /\ "pred_normalized" \in DOMAIN binding
    /\ image.size = <<50, 50>>
    /\ Named("pred_normalized") # Named("landmarks_normalized")
    /\ Named("pred_landmarks") # Named("landmarks_normalized")

-----------------------------------------------------------------------------
(* The files of the images directory.  A file name is a sequence of the    *)
(* pieces below, none of which is the beginning of another, so that        *)
(* endswith, in, replace and the order of the names work on the pieces as  *)
(* they work on the characters.                                            *)
Pieces == <<".bak", ".jpg", ".png", "_comparison", "_landmarks", "cat", "v2">>

Rank(piece) == CHOOSE k \in DOMAIN Pieces : Pieces[k] = piece

(* a < b for two str *)
RECURSIVE Less(_, _)
Less(a, b) ==
    IF b = <<>> THEN FALSE
    ELSE IF a = <<>> THEN TRUE
    ELSE IF Head(a) = Head(b) THEN Less(Tail(a), Tail(b))
    ELSE Rank(Head(a)) < Rank(Head(b))

(* f.endswith(suffix) *)
EndsWith(f, suffix) ==
    /\ Len(suffix) <= Len(f)
    /\ SubSeq(f, Len(f) - Len(suffix) + 1, Len(f)) = suffix

(* piece in f *)
Contains(f, piece) == \E k \in DOMAIN f : f[k] = piece

(* f.replace(old, new), old a piece *)
RECURSIVE Replace(_, _, _)
Replace(f, old, new) ==
    IF f = <<>> THEN <<>>
    ELSE (IF Head(f) = old THEN new ELSE <<Head(f)>>) \o Replace(Tail(f), old, new)

(* a variant of the filter that lets the comparisons through *)
IsTestImage_LandmarksOnly(f) ==
    /\ EndsWith(f, <<".png">>)
    /\ ~EndsWith(f, <<"_landmarks", ".png">>)

(* inference.py line 96 and analyze_results.py line 33: the filter *)
IsTestImage(f) ==
    /\ EndsWith(f, <<".png">>)
    /\ ~EndsWith(f, <<"_landmarks", ".png">>)
    /\ ~EndsWith(f, <<"_comparison", ".png">>)

(* dataset.py line 28: the filter *)
IsDatasetImage(f) ==
    /\ EndsWith(f, <<".png">>)
    /\ ~Contains(f, "_landmarks")
    /\ ~Contains(f, "_comparison")

(* sorted(names)[:n], as a set *)
FirstSorted(names, n) ==
    {f \in names : Cardinality({g \in names : Less(g, f)}) < n}

(* lines 95-96 and 32-33: image_files *)
TestImages(dir, num_samples) == FirstSorted({f \in dir : IsTestImage(f)}, num_samples)

(* dataset.py lines 27-28: image_files *)
DatasetImages(dir) == {f \in dir : IsDatasetImage(f)}

(* inference.py line 83 and compare_predictions.py line 61 *)
VisPath(image_path) ==
    Replace(Replace(image_path, ".png", <<"_landmarks", ".png">>),
            ".jpg", <<"_landmarks", ".jpg">>)

ComparisonPath(image_path) == Replace(image_path, ".png", <<"_comparison", ".png">>)

(* the names at the start, the longest name that is written and the most  *)
(* files that the directory holds                                          *)
MaxPieces == 5

MaxFiles == 6

NumSamples == {1, 50}

FirstNames ==
    {<<"cat", ".png">>, <<"cat", ".jpg">>, <<"_landmarks", "v2", ".png">>,
     <<"cat", ".jpg", ".png">>}

Short(names) == \A f \in names : Len(f) <= MaxPieces

Fits(dir) == Short(dir) /\ Cardinality(dir) <= MaxFiles

InitDir ==
    /\ landmarks = None
    /\ eye_score = None
    /\ ears_score = None
    /\ muzzle_score = None
    /\ cps_pc = "not called"
    /\ weights = "none"
    /\ ret = None
    /\ error_printed = FALSE
    /\ NoEvaluation
    /\ NoBatch
    /\ vs_loc = None
    /\ tv_loc = None
    /\ heap = <<>>
    /\ binding = <<>>
    /\ directory \in SUBSET FirstNames
    /\ NoMain

(* inference.main with --image: predict_landmarks with save_vis on a file  *)
(* of the directory                                                        *)
PredictRun ==
    /\ \E image_path \in directory :
          /\ Fits(directory \cup {VisPath(image_path)})
          /\ directory' = directory \cup {VisPath(image_path)}
    /\ UNCHANGED <<classifier_vars, cps_vars, nme_vars, batch_vars, item, val_vars, copy_vars, main_vars>>

(* evaluate_model, lines 91-110: a visualization for every image_file *)
EvaluateRun ==
    /\ \E num_samples \in NumSamples :
       \E written \in {{VisPath(f) : f \in TestImages(directory, num_samples)}} :
          /\ Fits(directory \cup written)
          /\ directory' = directory \cup written
    /\ UNCHANGED <<classifier_vars, cps_vars, nme_vars, batch_vars, item, val_vars, copy_vars, main_vars>>

(* validate_on_val_set.py, lines 22-70: a visualization for every file of  *)
(* test_files, which are files of the dataset                              *)
ValSetRun ==
    /\ \E test_files \in SUBSET DatasetImages(directory) :
       \E written \in {{VisPath(f) : f \in test_files}} :
          /\ Fits(directory \cup written)
          /\ directory' = directory \cup written
    /\ UNCHANGED <<classifier_vars, cps_vars, nme_vars, batch_vars, item, val_vars, copy_vars, main_vars>>

(* analyze_validation_results, lines 32-33 and 213-241: a comparison for   *)
(* the three worst results, or for all of them if there are fewer          *)
AnalyzeRun ==
    /\ \E worst_results \in SUBSET TestImages(directory, 50) :
       \E written \in {{ComparisonPath(f) : f \in worst_results}} :
          /\ Cardinality(worst_results) = IF Cardinality(TestImages(directory, 50)) < 3
                                          THEN Cardinality(TestImages(directory, 50))
                                          ELSE 3
          /\ Fits(directory \cup written)
          /\ directory' = directory \cup written
    /\ UNCHANGED <<classifier_vars, cps_vars, nme_vars, batch_vars, item, val_vars, copy_vars, main_vars>>

(* compare_predictions.py, lines 60-62 and 74-85, on a file of the         *)
(* directory                                                               *)
CompareRun ==
    /\ \E image_path \in directory :
          /\ Fits(directory \cup {ComparisonPath(image_path)})
          /\ directory' = directory \cup {ComparisonPath(image_path)}
    /\ UNCHANGED <<classifier_vars, cps_vars, nme_vars, batch_vars, item, val_vars, copy_vars, main_vars>>

NextDir == PredictRun \/ EvaluateRun \/ ValSetRun \/ AnalyzeRun \/ CompareRun

SpecDir == InitDir /\ [][NextDir]_vars

(* C26: a run leaves the images selected by evaluate_model, by             *)
(* analyze_validation_results and by CatLandmarkDataset as they were, and  *)
(* selects none of the files it writes.                                    *)
C26_InputsKept ==
    [][/\ \A n \in NumSamples : TestImages(directory', n) = TestImages(directory, n)
       /\ DatasetImages(directory') = DatasetImages(directory)
       /\ \A f \in directory' \ directory :
              /\ ~IsTestImage(f)
              /\ ~IsDatasetImage(f)
              /\ \/ EndsWith(f, <<"_landmarks", ".png">>)
                 \/ EndsWith(f, <<"_comparison", ".png">>)
                 \/ ~EndsWith(f, <<".png">>)]_vars

(* the visualization of an image whose name holds _landmarks, next to a    *)
(* comparison and to the images                                            *)
C26_Witness ==
    /\ <<"_landmarks", "v2", "_landmarks", ".png">> \in directory
    /\ <<"cat", "_comparison", ".png">> \in directory
    /\ <<"cat", "_landmarks", ".png">> \in directory
    /\ TestImages(directory, 50) = {<<"cat", ".png">>, <<"_landmarks", "v2", ".png">>}
    /\ DatasetImages(directory) = {<<"cat", ".png">>}

-----------------------------------------------------------------------------
(* The split of the dataset into a training and a validation subset:       *)
(* train.py lines 124-138 and validate_on_val_set.py lines 13-27 and 56.   *)

(* sorted(names) *)
SortedNames(names) ==
    [k \in 1 .. Cardinality(names) |->
        CHOOSE f \in names : Cardinality({g \in names : Less(g, f)}) = k - 1]

(* dataset.py lines 27-28: image_files of a CatLandmarkDataset *)
DatasetFiles(dir) == SortedNames(DatasetImages(dir))

(* a variant of the size that takes a quarter *)
ValSize_Quarter(n) == n \div 4

(* train.py line 128: int(len(full_dataset) * 0.2).  The double 0.2 lies   *)
(* above 1/5 by less than 2^-56, so the product is n/5 when 5 divides n    *)
(* and is at least 1/5 away from the next integer otherwise: int gives the *)
(* integer quotient.                                                       *)
ValSize(n) == n \div 5

(* torch.randperm(n): the default generator is not seeded by the programs, *)
(* every run draws its own permutation.  The permutations drawn here are   *)
(* i -> a i + b modulo n, a prime to n.                                    *)
RandPerm(n) ==
    IF n = 0 THEN {<<>>}
    ELSE {[k \in 1 .. n |-> (a * (k - 1) + b) % n] :
              a \in {c \in 1 .. n : GCD(c, n) = 1}, b \in 0 .. (n - 1)}

(* torch.utils.data.random_split(dataset, [train_size, val_size]) for the  *)
(* permutation drawn: the indices of the two Subsets                       *)
RandomSplit(indices, train_size, val_size) ==
    <<SubSeq(indices, 1, train_size),
      SubSeq(indices, train_size + 1, train_size + val_size)>>

(* the dataset images at the start, and the other files of the directory   *)
MaxImages == 10

ImageName(k) == [j \in 1 .. k |-> "cat"] \o <<".png">>

OtherFiles == {<<"cat", "_landmarks", ".png">>, <<"cat", ".jpg">>, <<".bak">>}

InitSplit ==
    /\ landmarks = None
    /\ eye_score = None
    /\ ears_score = None
    /\ muzzle_score = None
    /\ cps_pc = "not called"
    /\ weights = "none"
    /\ ret = None
    /\ error_printed = FALSE
    /\ NoEvaluation
    /\ NoBatch
    /\ vs_loc = None
    /\ tv_loc = None
    /\ heap = <<>>
    /\ binding = <<>>
    /\ \E n \in 0 .. MaxImages, others \in {{}, OtherFiles} :
           directory = {ImageName(k) : k \in 1 .. n} \cup others
    /\ NoMain

(* train.main, lines 124-138: the three datasets and the split *)
TrainSplit ==
    /\ split = None
    /\ \E full_dataset \in {DatasetFiles(directory)} :
       \E val_size \in {ValSize(Len(full_dataset))} :
       \E train_size \in {Len(full_dataset) - val_size} :
       \E train_dataset_full \in {DatasetFiles(directory)} :
       \E val_dataset_full \in {DatasetFiles(directory)} :
       \E indices \in RandPerm(train_size + val_size) :
           split' = [full_dataset |-> full_dataset,
                     train_dataset_full |-> train_dataset_full,
                     val_dataset_full |-> val_dataset_full,
                     train_indices |-> RandomSplit(indices, train_size, val_size)[1],
                     val_indices |-> RandomSplit(indices, train_size, val_size)[2]]
    /\ UNCHANGED <<classifier_vars, cps_vars, nme_vars, batch_vars, item, val_vars,
                   copy_vars, dir_vars, vs_split, train_vars, export_vars>>

(* validate_on_val_set.py, lines 13-27 and 56, run on the checkpoint of a  *)
(* training run: its own split, val_files and test_files                   *)
ValSetSplit ==
    /\ split # None
    /\ vs_split = None
    /\ \E full_dataset \in {DatasetFiles(directory)} :
       \E val_size \in {ValSize(Len(full_dataset))} :
       \E train_size \in {Len(full_dataset) - val_size} :
       \E all_image_files \in {SortedNames(DatasetImages(directory))} :
       \E indices \in RandPerm(train_size + val_size) :
       \E val_indices \in {RandomSplit(indices, train_size, val_size)[2]} :
       \E val_files \in {[k \in DOMAIN val_indices |-> all_image_files[val_indices[k] + 1]]} :
           vs_split' = [val_indices |-> val_indices,
                        val_files |-> val_files,
                        test_files |-> SubSeq(val_files, 1,
                                              IF Len(val_files) < 50 THEN Len(val_files) ELSE 50)]
    /\ UNCHANGED <<classifier_vars, cps_vars, nme_vars, batch_vars, item, val_vars,
                   copy_vars, dir_vars, split, train_vars, export_vars>>

NextSplit == TrainSplit \/ ValSetSplit

SpecSplit == InitSplit /\ [][NextSplit]_vars

(* the image files of the two Subsets of train.main *)
TrainingFiles == {split.train_dataset_full[i + 1] : i \in RangeOf(split.train_indices)}

ValidationFiles == {split.val_dataset_full[i + 1] : i \in RangeOf(split.val_indices)}

(* C27: the validation subset has floor(0.2 n) indices and the training    *)
(* subset the other n - floor(0.2 n); no index is in both or twice in one, *)
(* together they are 0 .. n-1, and an index denotes the same file in the   *)
(* three datasets.                                                         *)
C27_Split ==
    split # None =>
        LET n == Len(split.full_dataset)
            v == Len(split.val_indices)
        IN  /\ n = Cardinality(DatasetImages(directory))
            /\ 5 * v <= n /\ n < 5 * (v + 1)
            /\ Len(split.train_indices) = n - v
            /\ RangeOf(split.train_indices) \cap RangeOf(split.val_indices) = {}
            /\ RangeOf(split.train_indices) \cup RangeOf(split.val_indices) = 0 .. (n - 1)
            /\ Cardinality(RangeOf(split.train_indices)) = n - v
            /\ Cardinality(RangeOf(split.val_indices)) = v
            /\ Len(split.train_dataset_full) = n
            /\ Len(split.val_dataset_full) = n
            /\ \A i \in 0 .. (n - 1) :
                   /\ split.train_dataset_full[i + 1] = split.full_dataset[i + 1]
                   /\ split.val_dataset_full[i + 1] = split.full_dataset[i + 1]
            /\ TrainingFiles \cap ValidationFiles = {}

(* ten images among other files, split eight to two, the validation        *)
(* indices not being the last two                                          *)
C27_Witness ==
    /\ split # None
    /\ OtherFiles \subseteq directory
    /\ Len(split.full_dataset) = 10
    /\ Len(split.train_indices) = 8
    /\ split.val_indices = <<3, 0>>

(* C28: every image that validate_on_val_set.py evaluates is in the        *)
(* validation subset of the training run, and none is in its training      *)
(* subset.                                                                 *)
C28_SameSplit ==
    vs_split # None =>
        \A k \in DOMAIN vs_split.test_files :
            /\ vs_split.test_files[k] \in ValidationFiles
            /\ vs_split.test_files[k] \notin TrainingFiles

-----------------------------------------------------------------------------
(* The training loop and its checkpoints: train.py lines 171-216.          *)

(* line 87 *)
num_epochs == 50

(* a validation loss: a float that is a number, inf or nan; the numbers    *)
(* are 0 .. MaxLoss                                                        *)
MaxLoss == 1

Number(k) == [kind |-> "number", value |-> k]

float_inf == [kind |-> "inf", value |-> 0]

float_nan == [kind |-> "nan", value |-> 0]

Losses == {Number(k) : k \in 0 .. MaxLoss} \cup {float_inf, float_nan}

(* a < b for two floats that are not -inf *)
LessFloat(a, b) ==
    /\ a.kind = "number"
    /\ \/ b.kind = "inf"
       \/ b.kind = "number" /\ a.value < b.value

(* a variant of the test that lets an equal loss through *)
IsBetter_OrEqual(val_loss, best) == LessFloat(val_loss, best) \/ val_loss = best

(* line 195 *)
IsBetter(val_loss, best) == LessFloat(val_loss, best)

(* str(n), n >= 0, and the names of the files of save_dir *)
Digit == <<"0", "1", "2", "3", "4", "5", "6", "7", "8", "9">>

RECURSIVE Str(_)
Str(n) == IF n < 10 THEN <<Digit[n + 1]>> ELSE Str(n \div 10) \o <<Digit[(n % 10) + 1]>>

BestModel == <<"best_model.pth">>

CheckpointName(n) == <<"checkpoint_epoch_">> \o Str(n) \o <<".pth">>

(* torch.save(checkpoint, name) *)
Save(files, name, checkpoint) ==
    [f \in DOMAIN files \cup {name} |-> IF f = name THEN checkpoint ELSE files[f]]

(* the losses that validate returns over the epochs: three losses in turn, *)
(* and one epoch with a loss of its own                                    *)
LateEpochs == {10, 37, 50}

Curve(early, late_epoch, late_loss) ==
    [k \in 1 .. num_epochs |->
        IF k = late_epoch THEN late_loss ELSE early[((k - 1) % 3) + 1]]

Curves ==
    {Curve(early, late_epoch, late_loss) :
         early \in [1 .. 3 -> Losses], late_epoch \in LateEpochs, late_loss \in Losses}

(* line 172, save_dir being empty *)
InitTrain ==
    /\ landmarks = None
    /\ eye_score = None
    /\ ears_score = None
    /\ muzzle_score = None
    /\ cps_pc = "not called"
    /\ weights = "none"
    /\ ret = None
    /\ error_printed = FALSE
    /\ NoEvaluation
    /\ NoBatch
    /\ vs_loc = None
    /\ tv_loc = None
    /\ heap = <<>>
    /\ binding = <<>>
    /\ directory = {}
    /\ split = None
    /\ vs_split = None
    /\ epoch = 0
    /\ best_val_loss = float_inf
    /\ saved = <<>>
    /\ val_curve \in Curves
    /\ args = None
    /\ converted = None

(* lines 174-216: one pass of the loop.  The variable epoch counts the     *)
(* passes made, which is the value of the loop variable of the pass to     *)
(* come; the model state after n passes is written n.                      *)
TrainEpoch ==
    /\ epoch < num_epochs
    /\ \E val_loss \in {val_curve[epoch + 1]} :
       \E checkpoint \in {[epoch |-> epoch,
                           model_state_dict |-> epoch + 1,
                           optimizer_state_dict |-> epoch + 1,
                           val_loss |-> val_loss]} :
       \E with_best \in {IF IsBetter(val_loss, best_val_loss)
                         THEN Save(saved, BestModel, checkpoint)
                         ELSE saved} :
           /\ best_val_loss' = IF IsBetter(val_loss, best_val_loss)
                               THEN val_loss
                               ELSE best_val_loss
           /\ saved' = IF (epoch + 1) % 10 = 0
                       THEN Save(with_best, CheckpointName(epoch + 1), checkpoint)
                       ELSE with_best
    /\ epoch' = epoch + 1
    /\ UNCHANGED <<classifier_vars, cps_vars, nme_vars, batch_vars, item, val_vars,
                   copy_vars, dir_vars, split_vars, val_curve, export_vars>>

NextTrain == TrainEpoch

SpecTrain == InitTrain /\ [][NextTrain]_vars

(* the state that the k-th epoch leaves in a file *)
StateOf(k) ==
    [epoch |-> k - 1, model_state_dict |-> k, optimizer_state_dict |-> k,
     val_loss |-> val_curve[k]]

(* the k-th loss is the minimum of the first n, for the first time *)
EarliestMinimum(k, n) ==
    /\ val_curve[k].kind = "number"
    /\ \A j \in 1 .. n : ~LessFloat(val_curve[j], val_curve[k])
    /\ \A j \in 1 .. (k - 1) : val_curve[j] # val_curve[k]

PeriodicEpochs == {10, 20, 30, 40, 50}

(* C29: best_val_loss never increases; after every epoch best_model.pth,   *)
(* once written, holds the state and the loss of the earliest epoch whose  *)
(* loss is the minimum so far, an epoch with an equal or a higher loss     *)
(* leaves it as it is, and the files checkpoint_epoch_N.pth are written at *)
(* the epochs 10, 20, 30, 40 and 50 and at no other.                       *)
C29_BestModel ==
    /\ [](/\ BestModel \in DOMAIN saved <=>
                 \E k \in 1 .. epoch : EarliestMinimum(k, epoch)
          /\ \A k \in 1 .. epoch :
                 EarliestMinimum(k, epoch) =>
                     /\ saved[BestModel] = StateOf(k)
                     /\ best_val_loss = val_curve[k]
          /\ DOMAIN saved \ {BestModel} =
                 {CheckpointName(n) : n \in {m \in PeriodicEpochs : m <= epoch}}
          /\ \A n \in PeriodicEpochs :
                 n <= epoch => saved[CheckpointName(n)] = StateOf(n))
    /\ [][/\ ~LessFloat(best_val_loss, best_val_loss')
          /\ (BestModel \in DOMAIN saved /\ ~LessFloat(val_curve[epoch'], best_val_loss)) =>
                 saved'[BestModel] = saved[BestModel]
          /\ \A f \in DOMAIN saved \ {BestModel} : saved'[f] = saved[f]
          /\ (DOMAIN saved' \ DOMAIN saved) \ {BestModel} =
                 IF epoch' \in PeriodicEpochs THEN {CheckpointName(epoch')} ELSE {}]_vars

(* the end of a run whose first loss is nan and whose minimum is reached   *)
(* at the second epoch and again at the last                               *)
C29_Witness ==
    /\ epoch = num_epochs
    /\ val_curve[1] = float_nan
    /\ val_curve[2] = Number(0)
    /\ val_curve[num_epochs] = Number(0)
    /\ val_curve[37] = Number(1)
    /\ saved[BestModel].epoch = 1
    /\ CheckpointName(50) \in DOMAIN saved

-----------------------------------------------------------------------------
(* The export to Core ML: convert_to_coreml.py lines 114-146.  An output   *)
(* path is a sequence of the pieces below; each begins with the only "."   *)
(* or "/" it holds, so that endswith and replace work on the pieces as     *)
(* they work on the characters.                                            *)
PathPieces == {"/Model", ".mlmodel", ".mlpackage", ".bin"}

MaxPath == 3

RECURSIVE PathsOfLen(_)
PathsOfLen(n) ==
    IF n = 0 THEN {<<>>}
    ELSE {path \o <<piece>> : path \in PathsOfLen(n - 1), piece \in PathPieces}

OutputPaths == UNION {PathsOfLen(n) : n \in 0 .. MaxPath}

Formats == {"mlprogram", "neuralnetwork"}

(* lines 135-143: args.output after the validation of the extension *)
NormalizedOutput(output, format) ==
    IF format = "mlprogram" /\ ~EndsWith(output, <<".mlpackage">>)
    THEN Replace(output, ".mlmodel", <<".mlpackage">>)
    ELSE IF format = "neuralnetwork" /\ ~EndsWith(output, <<".mlmodel">>)
    THEN Replace(output, ".mlpackage", <<".mlmodel">>)
    ELSE output

(* line 124: the arguments parsed, and whether the file args.model exists  *)
InitExport ==
    /\ landmarks = None
    /\ eye_score = None
    /\ ears_score = None
    /\ muzzle_score = None
    /\ cps_pc = "not called"
    /\ weights = "none"
    /\ ret = None
    /\ error_printed = FALSE
    /\ NoEvaluation
    /\ NoBatch
    /\ vs_loc = None
    /\ tv_loc = None
    /\ heap = <<>>
    /\ binding = <<>>
    /\ directory = {}
    /\ split = None
    /\ vs_split = None
    /\ epoch = 0
    /\ best_val_loss = None
    /\ saved = <<>>
    /\ val_curve = <<>>
    /\ args \in [model_exists : BOOLEAN, output : OutputPaths, format : Formats]
    /\ converted = None

(* main, lines 126-146: the return when the model is missing, or else the  *)
(* validation of the extension and the call of convert_to_coreml           *)
ConvertMain ==
    /\ converted = None
    /\ IF ~args.model_exists
       THEN /\ converted' = [called |-> FALSE]
            /\ args' = args
       ELSE /\ args' = [args EXCEPT !.output = NormalizedOutput(args.output, args.format)]
            /\ converted' = [called |-> TRUE,
                             output_path |-> args'.output,
                             format |-> args.format]
    /\ UNCHANGED <<classifier_vars, cps_vars, nme_vars, batch_vars, item, val_vars,
                   copy_vars, dir_vars, split_vars, train_vars>>

NextExport == ConvertMain

SpecExport == InitExport /\ [][NextExport]_vars

(* the extension that a format asks for *)
ExtensionOf(format) == IF format = "mlprogram" THEN <<".mlpackage">> ELSE <<".mlmodel">>

(* C30: when main goes on to the conversion, the output path ends with     *)
(* .mlpackage for the format mlprogram and with .mlmodel for the format    *)
(* neuralnetwork.                                                          *)
C30_Extension ==
    (converted # None /\ converted.called) =>
        EndsWith(converted.output_path, ExtensionOf(converted.format))

(* the paths on which the extension does come out right: those that end    *)
(* with .mlpackage or with .mlmodel                                        *)
ExtensionWhenGiven ==
    (converted # None /\ converted.called) =>
        (EndsWith(converted.output_path, ExtensionOf(converted.format))
             <=> \E format \in Formats : EndsWith(converted.output_path, ExtensionOf(format)))

=============================================================================
